---- MODULE Spec2Model ----
(***************************************************************************)
(* Text segmentation (NelsonDataProcessor.chunk_text) and content          *)
(* classification (create_new_schema_dataset.categorize_content and        *)
(* extract_keywords) of the Nelson textbook scripts.                       *)
(*                                                                         *)
(* A string is a sequence of one-character strings, so that splitting,     *)
(* stripping, joining and substring search are computed character by       *)
(* character, as the Python code computes them.                            *)
(***************************************************************************)
EXTENDS Integers, Sequences, FiniteSets, TLC

VARIABLES
    text,            \* chunk_text argument
    max_tokens,      \* chunk_text argument
    tokenizer,       \* which tokenizer self.tokenizer is: "words" or "cl100k"
    sentences,       \* local: result of re.split
    idx,             \* position of the for loop in sentences (1-based)
    chunks,          \* local: the list being returned
    current_chunk,   \* local
    current_tokens,  \* local
    pc,              \* position in chunk_text: "idle" "split" "loop" "done"
    chapter,         \* categorize_content argument
    content,         \* categorize_content / extract_keywords argument
    medical_category, \* first component of categorize_content's result
    age_group,       \* second component of categorize_content's result
    keywords,        \* result of extract_keywords (as a set: its order is unspecified)
    cpc,             \* position of the classifier: "idle" "call" "keywords" "done"
    rerun,           \* the result of the same classification in a later run
                     \* of the script: <<>> before it, then one record
    filename,        \* extract_sections argument (its text is the variable text)
    sec_i,           \* extract_sections: the index i of enumerate(chunks)
    sections,        \* extract_sections: the list being returned
    spc,             \* position in extract_sections: "idle" "loop" "done"
    script,          \* the upload script that is running, "none" when none is
    rows,            \* the data rows of the CSV file the script reads, or
                     \* the records of the list it uploads
    batch_size,      \* batch_size of the script (a local or a parameter)
    row_num,         \* number of rows the for loop has taken from the reader
                     \* (the offset i of the loops over a list)
    batch_data,      \* local: the records waiting for the next insert
    successful,      \* local: the counter of uploaded records
    failed,          \* local: the counter of failed records
    calls,           \* the insert calls made so far, with what each answered
    returned,        \* <<>> while the function runs, then <<its result>>
    csv_file,        \* validate_dataset argument, as what open() finds:
                     \* "none", "missing", "unreadable" or "csv"
    content_lengths, \* validate_dataset local
    content_errors,  \* validate_dataset local (the row numbers of the messages)
    metadata_errors, \* validate_dataset local (row number and what is wrong)
    chapters,        \* validate_dataset local
    record_keywords, \* create_csv_files: record['keywords']
    keywords_str,    \* the keywords column as written, <<>> before that
    reader,          \* the script that reads the column back, "none" before
    parsed_keywords  \* <<>> before the column is parsed, then <<the list>>

chunkVars == <<text, max_tokens, tokenizer, sentences, idx, chunks,
               current_chunk, current_tokens, pc>>
classVars == <<chapter, content, medical_category, age_group, keywords, cpc,
               rerun>>
sectVars == <<filename, sec_i, sections, spc>>
uploadVars == <<script, rows, batch_size, row_num, batch_data, successful,
                failed, calls, returned>>
validateVars == <<csv_file, content_lengths, content_errors, metadata_errors,
                  chapters>>
arrayVars == <<record_keywords, keywords_str, reader, parsed_keywords>>
fileVars == <<validateVars, arrayVars>>
ioVars == <<uploadVars, fileVars>>
vars == <<chunkVars, classVars, sectVars, ioVars>>

----------------------------------------------------------------------------
(* Bounds of the model                                                      *)

\* longest enumerated input text of chunk_text, in characters
MaxLen == 6
\* largest enumerated max_tokens
MaxTokens == 3

----------------------------------------------------------------------------
(* Characters                                                               *)

\* \s of the regular expressions and of str.strip(); the inputs of the model
\* use the space as their only whitespace character
Whitespace == {" "}
\* the character class [.!?] of the sentence split
SentenceEnd == {".", "!", "?"}
Digits == {"0", "1", "2", "3", "4", "5", "6", "7", "8", "9"}
\* characters that are neither whitespace, letters nor digits
Symbols == {".", "!", "?", ",", ";", ":", "-", "/", "&", "(", ")", "%", "'", "°"}

IsSpace(c) == c \in Whitespace
IsDigit(c) == c \in Digits
IsSymbol(c) == c \in Symbols
IsLetter(c) == c \notin Whitespace \cup Digits \cup Symbols

\* membership of a character in a character class of the regular expressions
InClass(c, class) ==
    IF class = "space" THEN IsSpace(c)
    ELSE IF class = "digit" THEN IsDigit(c)
    ELSE IF class = "symbol" THEN IsSymbol(c)
    ELSE IsLetter(c)

\* the end of the longest run of characters of a class that starts at i
\* (s[i] is of the class): a greedy class+
RunEnd(s, i, class) ==
    CHOOSE j \in i..Len(s) :
        /\ \A k \in i..j : InClass(s[k], class)
        /\ (j = Len(s) \/ ~InClass(s[j + 1], class))

Min(a, b) == IF a <= b THEN a ELSE b

\* the concatenation of a sequence of lists (list.extend, one list after another)
RECURSIVE Flatten(_)
Flatten(seqs) ==
    IF seqs = <<>> THEN <<>> ELSE Head(seqs) \o Flatten(Tail(seqs))

----------------------------------------------------------------------------
(* str.strip()                                                              *)

Strip(s) ==
    LET keep == {i \in 1..Len(s) : ~IsSpace(s[i])}
    IN  IF keep = {} THEN <<>>
        ELSE LET lo == CHOOSE i \in keep : \A j \in keep : i <= j
                 hi == CHOOSE i \in keep : \A j \in keep : j <= i
             IN  SubSeq(s, lo, hi)

----------------------------------------------------------------------------
(* re.split(r'(?<=[.!?])\s+', text)                                         *)

\* a plausible slip: the lookbehind left out, so that every run of
\* whitespace separates
RECURSIVE SplitFrom_AnySpace(_, _)
SplitFrom_AnySpace(t, st) ==
    LET seps == {i \in st..Len(t) : IsSpace(t[i])}
    IN  IF seps = {} THEN <<SubSeq(t, st, Len(t))>>
        ELSE LET i == CHOOSE i \in seps : \A k \in seps : i <= k
                 j == RunEnd(t, i, "space")
             IN  <<SubSeq(t, st, i - 1)>> \o SplitFrom_AnySpace(t, j + 1)

\* the pieces of t from position st on: the separator is the first run of
\* whitespace, at or after st, that directly follows one of [.!?]
RECURSIVE SplitFrom(_, _)
SplitFrom(t, st) ==
    LET seps == {i \in st..Len(t) :
                    IsSpace(t[i]) /\ i > 1 /\ t[i - 1] \in SentenceEnd}
    IN  IF seps = {} THEN <<SubSeq(t, st, Len(t))>>
        ELSE LET i == CHOOSE i \in seps : \A k \in seps : i <= k
                 j == RunEnd(t, i, "space")
             IN  <<SubSeq(t, st, i - 1)>> \o SplitFrom(t, j + 1)

ReSplit(t) == SplitFrom(t, 1)

----------------------------------------------------------------------------
(* Tokenizers: len(self.tokenizer.encode(sentence))                         *)

\* the stub tokenizer that counts words: len(s.split())
WordCount(s) ==
    Cardinality({i \in 1..Len(s) : ~IsSpace(s[i]) /\ (i = 1 \/ IsSpace(s[i - 1]))})

\* tiktoken's gpt-3.5-turbo encoding (cl100k_base) first cuts the string into
\* pieces with the pattern
\*   [^\r\n\p{L}\p{N}]?\p{L}+ | \p{N}{1,3} | ?[^\s\p{L}\p{N}]+[\r\n]* | \s+(?!\S) | \s+
\* (the contraction and line-break alternatives cannot match the model's
\* inputs) and encodes each piece on its own; the short pieces of the model's
\* inputs are single tokens.  PieceEnd is the end of the piece starting at i.
PieceEnd(s, i) ==
    LET c == s[i]
        more == i < Len(s)
    IN  IF IsLetter(c) THEN RunEnd(s, i, "letter")
        ELSE IF ~IsDigit(c) /\ more /\ IsLetter(s[i + 1])
             THEN RunEnd(s, i + 1, "letter")
        ELSE IF IsDigit(c) THEN Min(RunEnd(s, i, "digit"), i + 2)
        ELSE IF IsSymbol(c) THEN RunEnd(s, i, "symbol")
        ELSE IF c = " " /\ more /\ IsSymbol(s[i + 1])
             THEN RunEnd(s, i + 1, "symbol")
        ELSE LET e == RunEnd(s, i, "space")
             IN  IF e = Len(s) THEN e ELSE IF e > i THEN e - 1 ELSE i

\* A text of more than 800 tokens is too long to spell out, so the
\* documents of extract_sections contain long words: one element of the
\* sequence that stands for a run of lowercase letters of the given number
\* of characters, which the encoding cuts into the given number of tokens.
LongWord ==
    ("<long word of 700 tokens>" :> [chars |-> 3000, tokens |-> 700])
        @@ ("<long word of 900 tokens>" :> [chars |-> 4000, tokens |-> 900])

IsLongWord(c) == c \in DOMAIN LongWord

\* the sum of f over the finite set S of its arguments
RECURSIVE Sum(_, _)
Sum(f, S) ==
    IF S = {} THEN 0
    ELSE LET x == CHOOSE x \in S : TRUE IN f[x] + Sum(f, S \ {x})

\* len(s)
CharCount(s) ==
    LET long == {i \in 1..Len(s) : IsLongWord(s[i])}
    IN  Len(s) - Cardinality(long) + Sum([i \in long |-> LongWord[s[i]].chars], long)

\* the number of tokens of the piece s[i..e]
PieceTokens(s, i, e) ==
    LET long == {k \in i..e : IsLongWord(s[k])}
    IN  IF long = {} THEN 1
        ELSE Sum([k \in long |-> LongWord[s[k]].tokens], long)

RECURSIVE PiecesFrom(_, _)
PiecesFrom(s, i) ==
    IF i > Len(s) THEN 0
    ELSE LET e == PieceEnd(s, i)
         IN  PieceTokens(s, i, e) + PiecesFrom(s, e + 1)

PieceCount(s) == PiecesFrom(s, 1)

CountTokens(tok, s) ==
    IF tok = "words" THEN WordCount(s) ELSE PieceCount(s)

----------------------------------------------------------------------------
(* chunk_text                                                               *)

\* a plausible slip: >= for >
ShouldFlush_AtLeast(cur_tokens, sentence_tokens, max, cur_chunk) ==
    cur_tokens + sentence_tokens >= max /\ cur_chunk # <<>>

\* a plausible slip: the budget tested before the sentence is counted
ShouldFlush_IgnoreSentence(cur_tokens, sentence_tokens, max, cur_chunk) ==
    cur_tokens > max /\ cur_chunk # <<>>

\* a plausible slip: the default budget used for the max_tokens argument
ShouldFlush_DefaultBudget(cur_tokens, sentence_tokens, max, cur_chunk) ==
    cur_tokens + sentence_tokens > 800 /\ cur_chunk # <<>>

\* if current_tokens + sentence_tokens > max_tokens and current_chunk:
ShouldFlush(cur_tokens, sentence_tokens, max, cur_chunk) ==
    cur_tokens + sentence_tokens > max /\ cur_chunk # <<>>

\* a plausible slip: = for +=
AppendSentence_Overwrite(cur_chunk, sentence) ==
    IF cur_chunk # <<>> THEN <<" ">> \o sentence ELSE sentence

\* current_chunk += " " + sentence if current_chunk else sentence
AppendSentence(cur_chunk, sentence) ==
    IF cur_chunk # <<>> THEN cur_chunk \o <<" ">> \o sentence ELSE sentence

\* chunks.append(current_chunk.strip())
Emit(cs, cur_chunk) == Append(cs, Strip(cur_chunk))

\* a plausible slip: the flush after the loop left out
FinalChunks_NoFlush(cs, cur_chunk) == cs

\* if current_chunk: chunks.append(current_chunk.strip())
FinalChunks(cs, cur_chunk) ==
    IF cur_chunk # <<>> THEN Emit(cs, cur_chunk) ELSE cs

\* sentences = re.split(...); chunks = []; current_chunk = ""; current_tokens = 0
SplitSentences ==
    /\ pc = "split"
    /\ sentences' = ReSplit(text)
    /\ chunks' = <<>>
    /\ current_chunk' = <<>>
    /\ current_tokens' = 0
    /\ idx' = 1
    /\ pc' = "loop"
    /\ UNCHANGED <<text, max_tokens, tokenizer, classVars, sectVars, ioVars>>

\* one iteration of the for loop, the if branch
StartNewChunk ==
    /\ pc = "loop"
    /\ idx <= Len(sentences)
    /\ LET sentence == sentences[idx]
           sentence_tokens == CountTokens(tokenizer, sentence)
       IN  /\ ShouldFlush(current_tokens, sentence_tokens, max_tokens, current_chunk)
           /\ chunks' = Emit(chunks, current_chunk)
           /\ current_chunk' = sentence
           /\ current_tokens' = sentence_tokens
    /\ idx' = idx + 1
    /\ UNCHANGED <<text, max_tokens, tokenizer, sentences, pc, classVars, sectVars, ioVars>>

\* one iteration of the for loop, the else branch
ExtendChunk ==
    /\ pc = "loop"
    /\ idx <= Len(sentences)
    /\ LET sentence == sentences[idx]
           sentence_tokens == CountTokens(tokenizer, sentence)
       IN  /\ ~ShouldFlush(current_tokens, sentence_tokens, max_tokens, current_chunk)
           /\ current_chunk' = AppendSentence(current_chunk, sentence)
           /\ current_tokens' = current_tokens + sentence_tokens
    /\ idx' = idx + 1
    /\ UNCHANGED <<text, max_tokens, tokenizer, sentences, chunks, pc, classVars, sectVars, ioVars>>

\* after the loop: the last flush, and return chunks
Finish ==
    /\ pc = "loop"
    /\ idx > Len(sentences)
    /\ chunks' = FinalChunks(chunks, current_chunk)
    /\ pc' = "done"
    /\ UNCHANGED <<text, max_tokens, tokenizer, sentences, idx, current_chunk,
                   current_tokens, classVars, sectVars, ioVars>>

----------------------------------------------------------------------------
(* Inputs of chunk_text                                                     *)

Alphabet == {"a", "3", ".", " "}

Texts == UNION {[1..n -> Alphabet] : n \in 0..MaxLen}

\* the example of the design's testable properties, and a text with a
\* sentence that starts with a number
FeverText ==
    <<"F","e","v","e","r"," ","i","s"," ","c","o","m","m","o","n","."," ",
      "T","r","e","a","t","m","e","n","t"," ","i","n","c","l","u","d","e","s"," ",
      "a","n","t","i","p","y","r","e","t","i","c","s","."," ",
      "M","o","n","i","t","o","r"," ","t","e","m","p","e","r","a","t","u","r","e"," ",
      "c","l","o","s","e","l","y",".">>
DoseText == <<"a","."," ","3","7","."," ","b",".">>
\* "Temp 37.5 today. Rest!  Ok? yes"
TempText ==
    <<"T","e","m","p"," ","3","7",".","5"," ","t","o","d","a","y",".">> \o
    <<" ","R","e","s","t","!"," "," ","O","k","?"," ","y","e","s">>

SampleCalls ==
    {[text |-> FeverText, max_tokens |-> 5, tokenizer |-> "words"],
     [text |-> DoseText, max_tokens |-> 4, tokenizer |-> "cl100k"],
     [text |-> DoseText, max_tokens |-> 4, tokenizer |-> "words"],
     [text |-> TempText, max_tokens |-> 4, tokenizer |-> "words"]}

ChunkCalls ==
    [text : Texts, max_tokens : 0..MaxTokens, tokenizer : {"words", "cl100k"}]
        \cup SampleCalls

ClassIdle ==
    /\ chapter = <<>>
    /\ content = <<>>
    /\ medical_category = "none"
    /\ age_group = "none"
    /\ keywords = {}
    /\ cpc = "idle"
    /\ rerun = <<>>

\* extract_sections is not running
SectIdle ==
    /\ filename = <<>>
    /\ sec_i = 0
    /\ sections = <<>>
    /\ spc = "idle"

\* no upload script is running
UploadIdle ==
    /\ script = "none"
    /\ rows = <<>>
    /\ batch_size = 0
    /\ row_num = 0
    /\ batch_data = <<>>
    /\ successful = 0
    /\ failed = 0
    /\ calls = <<>>
    /\ returned = <<>>

\* validate_dataset is not running
ValidateIdle ==
    /\ csv_file = "none"
    /\ content_lengths = <<>>
    /\ content_errors = <<>>
    /\ metadata_errors = <<>>
    /\ chapters = <<>>

\* no keywords column is being written or read back
ArrayIdle ==
    /\ record_keywords = <<>>
    /\ keywords_str = <<>>
    /\ reader = "none"
    /\ parsed_keywords = <<>>

FileIdle == ValidateIdle /\ ArrayIdle

\* none of the scripts that read or write the datasets is running
IoIdle == UploadIdle /\ FileIdle

ChunkInit ==
    /\ \E call \in ChunkCalls :
          /\ text = call.text
          /\ max_tokens = call.max_tokens
          /\ tokenizer = call.tokenizer
    /\ sentences = <<>>
    /\ idx = 1
    /\ chunks = <<>>
    /\ current_chunk = <<>>
    /\ current_tokens = 0
    /\ pc = "split"
    /\ ClassIdle
    /\ SectIdle
    /\ IoIdle

ChunkNext ==
    \/ SplitSentences
    \/ StartNewChunk
    \/ ExtendChunk
    \/ Finish

ChunkSpec == ChunkInit /\ [][ChunkNext]_vars

----------------------------------------------------------------------------
(* Properties of chunk_text                                                 *)

\* the (stripped) sentences a chunk is made of: a chunk joins sentences with
\* one space, and every sentence but the last of the text ends in [.!?]
SentencesOf(chunk) == ReSplit(chunk)

StripAll(seqs) == [i \in DOMAIN seqs |-> Strip(seqs[i])]
NotEmpty(s) == s # <<>>
\* the sentences of a split, stripped, without the empty pieces the split
\* leaves for an empty text or after trailing whitespace
Proper(seqs) == SelectSeq(StripAll(seqs), NotEmpty)

\* 1-based position, among the sentences of all chunks, of the first
\* sentence of chunk k
FirstIndex(k) ==
    1 + Len(Flatten([j \in 1..(k - 1) |-> SentencesOf(chunks[j])]))

Done == pc = "done"

\* C1: when chunk_text returns, the sentences of the chunks, read in output
\* order, are the sentences of the split of the text in their original
\* order, each exactly once (up to the strip applied to a chunk).
C1_SentencesPreserved ==
    Done => Proper(Flatten([k \in DOMAIN chunks |-> SentencesOf(chunks[k])]))
                = Proper(sentences)

\* C1 witness: a result of several chunks, one of them made of two sentences
C1_Witness ==
    /\ Done
    /\ Len(chunks) >= 2
    /\ \E k \in DOMAIN chunks : Len(SentencesOf(chunks[k])) >= 2

\* C2 (as claimed): every chunk but the last has count_tokens(chunk) <=
\* max_tokens, unless it is a single sentence.
C2_BudgetRespected ==
    Done => \A k \in 1..(Len(chunks) - 1) :
                \/ CountTokens(tokenizer, chunks[k]) <= max_tokens
                \/ Len(SentencesOf(chunks[k])) = 1

\* C3 (as claimed): a loop step appends the sentence when current_tokens +
\* sentence_tokens <= max_tokens, and otherwise emits the current chunk and
\* starts a new one with the sentence and its token count.
C3_StepRuleAsClaimed ==
    [][(pc = "loop" /\ idx <= Len(sentences)) =>
        LET s == sentences[idx]
            n == CountTokens(tokenizer, s)
        IN  IF current_tokens + n <= max_tokens
            THEN /\ current_chunk' = (IF current_chunk = <<>> THEN s
                                      ELSE current_chunk \o <<" ">> \o s)
                 /\ current_tokens' = current_tokens + n
                 /\ chunks' = chunks
            ELSE /\ chunks' = Append(chunks, Strip(current_chunk))
                 /\ current_chunk' = s
                 /\ current_tokens' = n]_vars

\* C3 (amended): the sentence is appended when current_tokens +
\* sentence_tokens <= max_tokens or the current chunk is still empty;
\* otherwise the current chunk is emitted and a new one starts with the
\* sentence.  In both cases of an over-budget sentence the running count
\* becomes that sentence's count.
C3_StepRule ==
    [][(pc = "loop" /\ idx <= Len(sentences)) =>
        LET s == sentences[idx]
            n == CountTokens(tokenizer, s)
        IN  IF current_tokens + n <= max_tokens \/ current_chunk = <<>>
            THEN /\ current_chunk' = (IF current_chunk = <<>> THEN s
                                      ELSE current_chunk \o <<" ">> \o s)
                 /\ current_tokens' = current_tokens + n
                 /\ chunks' = chunks
            ELSE /\ chunks' = Append(chunks, Strip(current_chunk))
                 /\ current_chunk' = s
                 /\ current_tokens' = n]_vars

\* C3 witness: the loop has both emitted a chunk and appended to one
C3_Witness ==
    /\ pc = "loop"
    /\ idx > 2
    /\ chunks # <<>>
    /\ Len(SentencesOf(current_chunk)) >= 2

\* C4: a sentence whose own token count exceeds max_tokens is returned as a
\* chunk of its own, at its place in the order of the sentences.
C4_OversizeAlone ==
    Done => \A i \in DOMAIN sentences :
                CountTokens(tokenizer, sentences[i]) > max_tokens =>
                    \E k \in DOMAIN chunks :
                        /\ FirstIndex(k) = i
                        /\ chunks[k] = Strip(sentences[i])

\* C4 witness: an oversize sentence in the middle of the text, after a
\* sentence within the budget
C4_Witness ==
    /\ Done
    /\ Len(sentences) >= 3
    /\ sentences[3] # <<>>
    /\ CountTokens(tokenizer, sentences[2]) > max_tokens
    /\ CountTokens(tokenizer, sentences[1]) <= max_tokens

\* C5 (as claimed): every chunk is a non-empty string.
C5_ChunksNonEmpty ==
    \A k \in DOMAIN chunks : chunks[k] # <<>>

\* C6: a non-empty accumulated chunk at the end of the loop is the last
\* element of the result, whatever its token count.
C6_FinalChunkEmitted ==
    (Done /\ current_chunk # <<>>) =>
        /\ chunks # <<>>
        /\ chunks[Len(chunks)] = Strip(current_chunk)

\* C6 witness: the last chunk is below the budget and follows another chunk
C6_Witness ==
    /\ Done
    /\ current_chunk # <<>>
    /\ current_tokens < max_tokens
    /\ Len(chunks) >= 2

IsWords == tokenizer = "words"

\* C7: with the word-counting tokenizer the example text and max_tokens = 5
\* give one chunk per sentence; and whenever every two adjacent sentences
\* together exceed max_tokens, the result is the sentences, one per chunk.
C7_OneChunkPerSentence ==
    Done =>
        /\ (text = FeverText /\ max_tokens = 5 /\ IsWords) =>
               (Len(chunks) = 3 /\ chunks = sentences)
        /\ LET ss == SelectSeq(sentences, NotEmpty)
           IN  (\A i \in 1..(Len(ss) - 1) :
                    CountTokens(tokenizer, ss[i])
                        + CountTokens(tokenizer, ss[i + 1]) > max_tokens)
               => chunks = StripAll(ss)

\* C7 witness: the example has been chunked
C7_Witness ==
    /\ Done
    /\ text = FeverText
    /\ max_tokens = 5
    /\ IsWords
    /\ Len(chunks) = 3

\* the positions of text where a run of whitespace starts directly after
\* one of . ! ?
SeparatorStarts ==
    {i \in 2..Len(text) : IsSpace(text[i]) /\ text[i - 1] \in {".", "!", "?"}}

\* position i of text lies in such a run
InSeparator(i) ==
    \E j \in SeparatorStarts :
        j <= i /\ \A k \in j..i : IsSpace(text[k])

\* text without these runs
Unseparated ==
    LET keep == {i \in 1..Len(text) : ~InSeparator(i)}
    IN  [k \in 1..Cardinality(keep) |->
            text[CHOOSE i \in keep : Cardinality({j \in keep : j <= i}) = k]]

\* C20: the text is cut exactly at the runs of whitespace that directly
\* follow '.', '!' or '?': there is one sentence more than such runs, the
\* sentences are the text between them, and no sentence holds one; so a
\* '.', '!' or '?' that no whitespace follows ends no sentence, and
\* whitespace that follows another character separates nothing.
C20_SplitAfterPunctuation ==
    pc \in {"loop", "done"} =>
        /\ Len(sentences) = 1 + Cardinality(SeparatorStarts)
        /\ Flatten(sentences) = Unseparated
        /\ \A k \in 1..Len(sentences) - 1 :
               /\ sentences[k] # <<>>
               /\ sentences[k][Len(sentences[k])] \in {".", "!", "?"}
               /\ sentences[k + 1] = <<>> \/ ~IsSpace(sentences[k + 1][1])
        /\ \A k \in 1..Len(sentences) : \A i \in 2..Len(sentences[k]) :
               ~(IsSpace(sentences[k][i])
                    /\ sentences[k][i - 1] \in {".", "!", "?"})

\* C20 witness: "Temp 37.5 today. Rest!  Ok? yes" is cut into four
\* sentences, the first keeping "37.5" and its inner spaces
C20_Witness ==
    /\ pc = "loop"
    /\ text = TempText
    /\ Len(sentences) = 4
    /\ sentences[1] = SubSeq(TempText, 1, 16)
    /\ sentences[4] = <<"y","e","s">>

----------------------------------------------------------------------------
(* Strings of the classifier                                                *)

Uppers ==
    <<"A","B","C","D","E","F","G","H","I","J","K","L","M",
      "N","O","P","Q","R","S","T","U","V","W","X","Y","Z">>
Lowers ==
    <<"a","b","c","d","e","f","g","h","i","j","k","l","m",
      "n","o","p","q","r","s","t","u","v","w","x","y","z">>

LowerOf ==
    [c \in {Uppers[i] : i \in DOMAIN Uppers} |->
        Lowers[CHOOSE i \in DOMAIN Uppers : Uppers[i] = c]]

LowerChar(c) == IF c \in DOMAIN LowerOf THEN LowerOf[c] ELSE c

\* str.lower()
Lower(s) == [i \in 1..Len(s) |-> LowerChar(s[i])]

\* sub in s
Contains(sub, s) ==
    \E i \in 1..(Len(s) - Len(sub) + 1) : SubSeq(s, i, i + Len(sub) - 1) = sub

Range(f) == {f[i] : i \in DOMAIN f}

----------------------------------------------------------------------------
(* categorize_content                                                       *)

\* category_mapping, in the insertion order its items() are iterated in
CategoryMapping ==
    <<[key |-> <<"a","l","l","e","r","g","i","c">>,
       category |-> "Allergy and Immunology"],
      [key |-> <<"c","a","r","d","i","o","v","a","s","c","u","l","a","r">>,
       category |-> "Cardiology"],
      [key |-> <<"r","e","s","p","i","r","a","t","o","r","y">>,
       category |-> "Pulmonology"],
      [key |-> <<"n","e","r","v","o","u","s">>,
       category |-> "Neurology"],
      [key |-> <<"e","n","d","o","c","r","i","n","e">>,
       category |-> "Endocrinology"],
      [key |-> <<"d","i","g","e","s","t","i","v","e">>,
       category |-> "Gastroenterology"],
      [key |-> <<"b","l","o","o","d">>,
       category |-> "Hematology"],
      [key |-> <<"s","k","i","n">>,
       category |-> "Dermatology"],
      [key |-> <<"b","o","n","e">>,
       category |-> "Orthopedics"],
      [key |-> <<"e","a","r">>,
       category |-> "Otolaryngology"],
      [key |-> <<"f","l","u","i","d">>,
       category |-> "Nephrology"],
      [key |-> <<"g","r","o","w","t","h">>,
       category |-> "Developmental Pediatrics"],
      [key |-> <<"m","e","t","a","b","o","l","i","c">>,
       category |-> "Metabolism"],
      [key |-> <<"i","m","m","u","n","o","l","o","g","y">>,
       category |-> "Immunology"],
      [key |-> <<"c","a","n","c","e","r">>,
       category |-> "Oncology"],
      [key |-> <<"u","r","o","l","o","g","y">>,
       category |-> "Urology"],
      [key |-> <<"g","y","n","e","c","o","l","o","g","i","c">>,
       category |-> "Gynecology"],
      [key |-> <<"r","e","h","a","b","i","l","i","t","a","t","i","o","n">>,
       category |-> "Rehabilitation Medicine"],
      [key |-> <<"r","h","e","u","m","a","t","i","c">>,
       category |-> "Rheumatology"],
      [key |-> <<"b","e","h","a","v","i","o","r","a","l">>,
       category |-> "Psychiatry"],
      [key |-> <<"l","e","a","r","n","i","n","g">>,
       category |-> "Developmental Pediatrics"]>>

DefaultCategory == "General Pediatrics"

\* a plausible slip: another default label
DefaultAgeGroup_Unknown == "Unknown"

DefaultAgeGroup == "Pediatric"

\* a plausible slip: the loop without its break, so that the last matching
\* pair decides
RECURSIVE CategoryFrom_NoBreak(_, _)
CategoryFrom_NoBreak(chapter_lower, i) ==
    IF i > Len(CategoryMapping) THEN DefaultCategory
    ELSE LET rest == CategoryFrom_NoBreak(chapter_lower, i + 1)
         IN  IF rest = DefaultCategory
                /\ Contains(CategoryMapping[i].key, chapter_lower)
             THEN CategoryMapping[i].category
             ELSE rest

\* a plausible slip: the operands of `in` exchanged
RECURSIVE CategoryFrom_Reversed(_, _)
CategoryFrom_Reversed(chapter_lower, i) ==
    IF i > Len(CategoryMapping) THEN DefaultCategory
    ELSE IF Contains(chapter_lower, CategoryMapping[i].key)
         THEN CategoryMapping[i].category
         ELSE CategoryFrom_Reversed(chapter_lower, i + 1)

\* for key, category in category_mapping.items(): if key in chapter_lower: ... break
RECURSIVE CategoryFrom(_, _)
CategoryFrom(chapter_lower, i) ==
    IF i > Len(CategoryMapping) THEN DefaultCategory
    ELSE IF Contains(CategoryMapping[i].key, chapter_lower)
         THEN CategoryMapping[i].category
         ELSE CategoryFrom(chapter_lower, i + 1)

\* the if / elif chain on content_lower, as an ordered list of rules
AgeRules ==
    <<[terms |-> <<<<"n","e","w","b","o","r","n">>,
                   <<"n","e","o","n","a","t","e">>,
                   <<"b","i","r","t","h">>>>,
       age_group |-> "Neonatal"],
      [terms |-> <<<<"i","n","f","a","n","t">>,
                   <<"b","a","b","y">>,
                   <<"0","-","2"," ","y","e","a","r","s">>>>,
       age_group |-> "Infant"],
      [terms |-> <<<<"t","o","d","d","l","e","r">>,
                   <<"2","-","5"," ","y","e","a","r","s">>>>,
       age_group |-> "Toddler"],
      [terms |-> <<<<"s","c","h","o","o","l">>,
                   <<"6","-","1","2"," ","y","e","a","r","s">>>>,
       age_group |-> "School Age"],
      [terms |-> <<<<"a","d","o","l","e","s","c","e","n","t">>,
                   <<"t","e","e","n","a","g","e","r">>,
                   <<"1","3","-","1","8"," ","y","e","a","r","s">>>>,
       age_group |-> "Adolescent"]>>

\* a plausible slip: all() for any()
AnyTerm_All(terms, content_lower) ==
    \A k \in DOMAIN terms : Contains(terms[k], content_lower)

\* any(term in content_lower for term in [...])
AnyTerm(terms, content_lower) ==
    \E k \in DOMAIN terms : Contains(terms[k], content_lower)

\* a plausible slip: a chain of plain ifs, so that the last matching rule
\* decides
RECURSIVE AgeFrom_NoElif(_, _)
AgeFrom_NoElif(content_lower, i) ==
    IF i > Len(AgeRules) THEN DefaultAgeGroup
    ELSE LET rest == AgeFrom_NoElif(content_lower, i + 1)
         IN  IF rest = DefaultAgeGroup /\ AnyTerm(AgeRules[i].terms, content_lower)
             THEN AgeRules[i].age_group
             ELSE rest

RECURSIVE AgeFrom(_, _)
AgeFrom(content_lower, i) ==
    IF i > Len(AgeRules) THEN DefaultAgeGroup
    ELSE IF AnyTerm(AgeRules[i].terms, content_lower)
         THEN AgeRules[i].age_group
         ELSE AgeFrom(content_lower, i + 1)

\* categorize_content(chapter, content) -> (medical_category, age_group)
categorize_content(ch, co) ==
    LET chapter_lower == Lower(ch)
        content_lower == Lower(co)
    IN  <<CategoryFrom(chapter_lower, 1), AgeFrom(content_lower, 1)>>

----------------------------------------------------------------------------
(* extract_keywords                                                         *)

\* \w of the regular expressions
IsWordChar(c) == IsLetter(c) \/ IsDigit(c)

\* \b at position p (between s[p - 1] and s[p])
AtBoundary(s, p) ==
    (p > 1 /\ IsWordChar(s[p - 1])) # (p <= Len(s) /\ IsWordChar(s[p]))

StartsAt(s, i, w) ==
    /\ i + Len(w) - 1 <= Len(s)
    /\ SubSeq(s, i, i + Len(w) - 1) = w

\* end of the match of (?:alt1|alt2|...)\b starting at i, trying the
\* alternatives in order; 0 when none matches
AltEnd(s, i, alts) ==
    LET ok == {k \in DOMAIN alts :
                  /\ StartsAt(s, i, alts[k])
                  /\ AtBoundary(s, i + Len(alts[k]))}
    IN  IF ok = {} THEN 0
        ELSE LET k == CHOOSE k \in ok : \A j \in ok : k <= j
             IN  i + Len(alts[k]) - 1

\* end of the match of \d+(?:-\d+)?\s*(?:units)\b starting at i; 0 when
\* there is none (giving back a digit or a space never lets it match)
AmountEnd(s, i, units) ==
    IF ~IsDigit(s[i]) THEN 0
    ELSE LET d1 == RunEnd(s, i, "digit")
             d2 == IF d1 + 2 <= Len(s) /\ s[d1 + 1] = "-" /\ IsDigit(s[d1 + 2])
                   THEN RunEnd(s, d1 + 2, "digit")
                   ELSE d1
             e  == IF d2 + 1 <= Len(s) /\ IsSpace(s[d2 + 1])
                   THEN RunEnd(s, d2 + 1, "space")
                   ELSE d2
         IN  AltEnd(s, e + 1, units)

\* end of the match of a pattern of medical_patterns at i, or 0
MatchEnd(pattern, s, i) ==
    IF ~AtBoundary(s, i) THEN 0
    ELSE IF pattern.kind = "amount" THEN AmountEnd(s, i, pattern.alts)
    ELSE AltEnd(s, i, pattern.alts)

\* the matches of a pattern in s from left to right, the search going on
\* after each match
RECURSIVE FindAllFrom(_, _, _)
FindAllFrom(pattern, s, i) ==
    LET starts == {j \in i..Len(s) : MatchEnd(pattern, s, j) # 0}
    IN  IF starts = {} THEN <<>>
        ELSE LET j == CHOOSE j \in starts : \A k \in starts : j <= k
                 e == MatchEnd(pattern, s, j)
             IN  <<SubSeq(s, j, e)>> \o FindAllFrom(pattern, s, e + 1)

\* medical_patterns; kind "words" is \b(?:alts)\b and kind "amount" is
\* \b\d+(?:-\d+)?\s*(?:alts)\b
MedicalPatterns ==
    <<[kind |-> "words",
       alts |-> <<<<"m","g","/","k","g">>,
                  <<"m","c","g","/","k","g">>,
                  <<"u","n","i","t","s","/","k","g">>>>],
      [kind |-> "amount",
       alts |-> <<<<"m","g">>,
                  <<"m","c","g">>,
                  <<"u","n","i","t","s">>,
                  <<"m","l">>,
                  <<"c","c">>>>],
      [kind |-> "words",
       alts |-> <<<<"a","m","o","x","i","c","i","l","l","i","n">>,
                  <<"i","b","u","p","r","o","f","e","n">>,
                  <<"a","c","e","t","a","m","i","n","o","p","h","e","n">>,
                  <<"p","r","e","d","n","i","s","o","n","e">>,
                  <<"a","l","b","u","t","e","r","o","l">>,
                  <<"a","z","i","t","h","r","o","m","y","c","i","n">>>>],
      [kind |-> "words",
       alts |-> <<<<"f","e","v","e","r">>,
                  <<"t","e","m","p","e","r","a","t","u","r","e">>,
                  <<"°","C">>,
                  <<"°","F">>>>],
      [kind |-> "words",
       alts |-> <<<<"a","s","t","h","m","a">>,
                  <<"p","n","e","u","m","o","n","i","a">>,
                  <<"b","r","o","n","c","h","i","t","i","s">>,
                  <<"o","t","i","t","i","s">>,
                  <<"d","e","r","m","a","t","i","t","i","s">>,
                  <<"e","c","z","e","m","a">>>>],
      [kind |-> "words",
       alts |-> <<<<"i","n","f","a","n","t">>,
                  <<"c","h","i","l","d">>,
                  <<"p","e","d","i","a","t","r","i","c">>,
                  <<"n","e","o","n","a","t","a","l">>,
                  <<"a","d","o","l","e","s","c","e","n","t">>>>],
      [kind |-> "words",
       alts |-> <<<<"t","r","e","a","t","m","e","n","t">>,
                  <<"t","h","e","r","a","p","y">>,
                  <<"m","a","n","a","g","e","m","e","n","t">>,
                  <<"d","i","a","g","n","o","s","i","s">>,
                  <<"s","y","m","p","t","o","m","s">>>>]>>

\* medical_terms
MedicalTerms ==
    <<<<"f","e","v","e","r">>,
      <<"i","n","f","e","c","t","i","o","n">>,
      <<"a","n","t","i","b","i","o","t","i","c">>,
      <<"t","r","e","a","t","m","e","n","t">>,
      <<"d","i","a","g","n","o","s","i","s">>,
      <<"s","y","m","p","t","o","m","s">>,
      <<"p","e","d","i","a","t","r","i","c">>,
      <<"c","h","i","l","d">>,
      <<"i","n","f","a","n","t">>,
      <<"a","d","o","l","e","s","c","e","n","t">>,
      <<"d","o","s","a","g","e">>,
      <<"m","e","d","i","c","a","t","i","o","n">>,
      <<"t","h","e","r","a","p","y">>,
      <<"m","a","n","a","g","e","m","e","n","t">>,
      <<"c","l","i","n","i","c","a","l">>,
      <<"p","a","t","i","e","n","t">>,
      <<"d","i","s","e","a","s","e">>,
      <<"d","i","s","o","r","d","e","r">>,
      <<"s","y","n","d","r","o","m","e">>,
      <<"c","o","n","d","i","t","i","o","n">>,
      <<"a","c","u","t","e">>,
      <<"c","h","r","o","n","i","c">>,
      <<"s","e","v","e","r","e">>,
      <<"m","i","l","d">>>>

\* re.IGNORECASE on a lowercased string: the pattern's letters match as
\* their lowercase
IgnoreCase ==
    [k \in DOMAIN MedicalPatterns |->
        [kind |-> MedicalPatterns[k].kind,
         alts |-> [j \in DOMAIN MedicalPatterns[k].alts |->
                      Lower(MedicalPatterns[k].alts[j])]]]

\* limit of the returned list
MaxKeywords == 10
\* limit of the list NelsonDataProcessor.extract_keywords returns
MaxProcessorKeywords == 20

\* the subsets of S that lack exactly n of its elements
RECURSIVE Without(_, _)
Without(S, n) ==
    IF n = 0 THEN {S}
    ELSE UNION {Without(S \ {x}, n - 1) : x \in S}

\* list(distinct)[:limit] of a set: any limit of its elements, all of them
\* when there are no more than limit
Slice(distinct, limit) ==
    IF Cardinality(distinct) <= limit THEN {distinct}
    ELSE Without(distinct, Cardinality(distinct) - limit)

\* a plausible slip: the terms looked up by their stems
TermFound_Stem(term, content_lower) ==
    Contains(SubSeq(term, 1, Len(term) - 2), content_lower)

\* a plausible slip: the terms searched as whole words, like the patterns
TermFound_WholeWord(term, content_lower) ==
    \E i \in 1..Len(content_lower) :
        /\ StartsAt(content_lower, i, term)
        /\ AtBoundary(content_lower, i)
        /\ AtBoundary(content_lower, i + Len(term))

\* if term in content_lower:
TermFound(term, content_lower) == Contains(term, content_lower)

\* the keywords list before set(): the pattern matches, then the terms found
KeywordList(co) ==
    LET content_lower == Lower(co)
        \* re.findall(pattern, content_lower, re.IGNORECASE)
        matches == [k \in DOMAIN MedicalPatterns |->
                       FindAllFrom(IgnoreCase[k], content_lower, 1)]
        found == SelectSeq(MedicalTerms, LAMBDA term : TermFound(term, content_lower))
    IN  Flatten(matches) \o found

\* a plausible slip: the slice left out
extract_keywords_NoCap(co) == {Range(KeywordList(co))}

\* list(set(keywords))[:10]: the iteration order of a set of strings is not
\* fixed (string hashes differ from one interpreter run to the next), so
\* any MaxKeywords of the distinct keywords may be the ones kept
extract_keywords(co) == Slice(Range(KeywordList(co)), MaxKeywords)

\* keywords = extract_keywords(content)
ExtractKeywords ==
    /\ cpc = "call"
    /\ keywords' \in extract_keywords(content)
    /\ cpc' = "keywords"
    /\ UNCHANGED <<chapter, content, medical_category, age_group, rerun,
                   chunkVars, sectVars, ioVars>>

\* medical_category, age_group = categorize_content(chapter, content)
Categorize ==
    /\ cpc = "keywords"
    /\ LET result == categorize_content(chapter, content)
       IN  /\ medical_category' = result[1]
           /\ age_group' = result[2]
    /\ cpc' = "done"
    /\ UNCHANGED <<chapter, content, keywords, rerun, chunkVars, sectVars, ioVars>>

----------------------------------------------------------------------------
(* Inputs of the classifier                                                 *)

\* the chapter names of the corpus
ChapterNames ==
    {<<"A", "l", "l", "e", "r", "g", "i", "c", " ", "D", "i", "s", "o", "r",
      "d", "e", "r">>,
     <<"B", "e", "h", "a", "v", "i", "o", "u", "r", "a", "l", " ", "&", " ",
      "p", "y", "s", "c", "h", "a", "t", "r", "i", "c", "a", "l", " ", "d",
      "i", "s", "o", "r", "d", "e", "r">>,
     <<"B", "o", "n", "e", " ", "a", "n", "d", " ", "J", "o", "i", "n", "t",
      " ", "D", "i", "s", "o", "r", "d", "e", "r", "s">>,
     <<"D", "i", "g", "e", "s", "t", "i", "v", "e", " ", "s", "y", "s", "t",
      "e", "m">>,
     <<"D", "i", "s", "e", "a", "s", "e", "s", " ", "o", "f", " ", "t", "h",
      "e", " ", "B", "l", "o", "o", "d">>,
     <<"E", "a", "r">>,
     <<"F", "l", "u", "i", "d", " ", "&", "e", "l", "e", "c", "t", "r", "o",
      "l", "y", "t", "e", " ", "d", "i", "s", "o", "r", "d", "e", "r">>,
     <<"G", "r", "o", "w", "t", "h", " ", "d", "e", "v", "e", "l", "o", "p",
      "m", "e", "n", "t", " ", "&", " ", "b", "e", "h", "a", "v", "i", "o",
      "u", "r">>,
     <<"G", "y", "n", "e", "c", "o", "l", "o", "g", "i", "c", " ", "H", "i",
      "s", "t", "o", "r", "y", " ", "a", "n", "d", " ", "P", "h", "y", "s",
      "i", "c", "a", "l", " ", "E", "x", "a", "m", "i", "n", "a", "t", "i",
      "o", "n">>,
     <<"H", "u", "m", "a", "n", "g", "e", "n", "e", "t", "i", "c", "s">>,
     <<"R", "e", "h", "a", "b", "i", "l", "i", "t", "a", "t", "i", "o", "n",
      " ", "M", "e", "d", "i", "c", "i", "n", "e">>,
     <<"R", "h", "e", "u", "m", "a", "t", "i", "c", " ", "D", "i", "s", "e",
      "a", "s", "e">>,
     <<"S", "k", "i", "n">>,
     <<"T", "h", "e", " ", "C", "a", "r", "d", "i", "o", "v", "a", "s", "c",
      "u", "l", "a", "r", " ", "S", "y", "s", "t", "e", "m">>,
     <<"T", "h", "e", " ", "E", "n", "d", "o", "c", "r", "i", "n", "e", " ",
      "S", "y", "s", "t", "e", "m">>,
     <<"T", "h", "e", " ", "N", "e", "r", "v", "o", "u", "s", " ", "S", "y",
      "s", "t", "e", "m">>,
     <<"T", "h", "e", " ", "R", "e", "s", "p", "i", "r", "a", "t", "o", "r",
      "y", " ", "S", "y", "s", "t", "e", "m">>,
     <<"U", "r", "o", "l", "o", "g", "y">>,
     <<"a", "l", "d", "o", "c", "e", "n", "t", " ", "m", "e", "d", "i", "c",
      "i", "n", "e">>,
     <<"c", "a", "n", "c", "e", "r", " ", "&", " ", "b", "e", "n", "i", "g",
      "n", " ", "t", "u", "m", "o", "r">>,
     <<"i", "m", "m", "u", "n", "o", "l", "o", "g", "y">>,
     <<"l", "e", "a", "r", "n", "i", "n", "g", " ", "&", " ", "d", "e", "v",
      "e", "l", "o", "p", "m", "e", "n", "t", "a", "l", " ", "d", "i", "s",
      "o", "r", "d", "e", "r">>,
     <<"m", "e", "t", "a", "b", "o", "l", "i", "c", " ", "d", "i", "s", "o",
      "r", "d", "e", "r">>}

ContentFragments ==
    {<<>>,
     <<" ">>,
     <<"n","e","w","b","o","r","n">>,
     <<"I","n","f","a","n","t">>,
     <<"b","a","b","y">>,
     <<"b","i","r","t","h","d","a","y">>,
     <<"t","o","d","d","l","e","r">>,
     <<"p","r","e","s","c","h","o","o","l">>,
     <<"a","d","o","l","e","s","c","e","n","t","s">>,
     <<"t","e","e","n","a","g","e","r">>,
     <<"0","-","2"," ","y","e","a","r","s">>,
     <<"f","e","v","e","r">>,
     <<"f","e","v","e","r","i","s","h">>,
     <<"5"," ","m","g">>,
     <<"1","0","-","1","5"," ","m","g","/","k","g">>,
     <<"A","m","o","x","i","c","i","l","l","i","n">>,
     <<"3","8","°","C">>,
     <<"c","h","i","l","d">>,
     <<"d","i","a","g","n","o","s","e","s">>}

ScreeningText ==
    <<"n", "e", "w", "b", "o", "r", "n", " ", "s", "c", "r", "e", "e", "n",
      "i", "n", "g", " ", "p", "r", "o", "t", "o", "c", "o", "l">>
Neonatology ==
    <<"N","e","o","n","a","t","o","l","o","g","y">>

Keys == {CategoryMapping[i].key : i \in DOMAIN CategoryMapping}

\* chapter labels: the chapter names, and any two keys (or none) side by side
Labels ==
    ChapterNames \cup {Neonatology}
        \cup {a \o <<" ">> \o b : a \in Keys \cup {<<>>}, b \in Keys \cup {<<>>}}

\* a content with more distinct keywords than extract_keywords returns
RichText ==
    <<"F", "e", "v", "e", "r", ":", " ", "t", "h", "e", " ", "i", "n", "f",
      "a", "n", "t", " ", "o", "r", " ", "c", "h", "i", "l", "d", " ", "w",
      "i", "t", "h", " ", "a", "n", " ", "i", "n", "f", "e", "c", "t", "i",
      "o", "n", " ", "n", "e", "e", "d", "s", " ", "a", " ", "d", "i", "a",
      "g", "n", "o", "s", "i", "s", ",", " ", "a", "n", "t", "i", "b", "i",
      "o", "t", "i", "c", " ", "t", "r", "e", "a", "t", "m", "e", "n", "t",
      " ", "a", "t", " ", "a", " ", "p", "e", "d", "i", "a", "t", "r", "i",
      "c", " ", "d", "o", "s", "a", "g", "e", " ", "o", "f", " ", "1", "0",
      " ", "m", "g", "/", "k", "g", ".">>

Contents ==
    {a \o b : a \in ContentFragments, b \in ContentFragments}
        \cup {ScreeningText, RichText}

BaseLabels == {<<>>, Neonatology, <<"E","a","r">>}
BaseContents == {<<>>, ScreeningText, <<" ",".","!">>}

ClassifyCalls ==
    (Labels \X BaseContents) \cup (BaseLabels \X Contents)

ChunkIdle ==
    /\ text = <<>>
    /\ max_tokens = 0
    /\ tokenizer = "words"
    /\ sentences = <<>>
    /\ idx = 1
    /\ chunks = <<>>
    /\ current_chunk = <<>>
    /\ current_tokens = 0
    /\ pc = "idle"

ClassifyInit ==
    /\ \E call \in ClassifyCalls :
          /\ chapter = call[1]
          /\ content = call[2]
    /\ medical_category = "none"
    /\ age_group = "none"
    /\ keywords = {}
    /\ cpc = "call"
    /\ rerun = <<>>
    /\ ChunkIdle
    /\ SectIdle
    /\ IoIdle

ClassifyNext ==
    \/ ExtractKeywords
    \/ Categorize

ClassifySpec == ClassifyInit /\ [][ClassifyNext]_vars

----------------------------------------------------------------------------
(* NelsonDataProcessor.extract_keywords                                     *)

IsUpper(c) == c \in Range(Uppers)
IsLower(c) == c \in Range(Lowers) \/ IsLongWord(c)

Syndrome == <<"s","y","n","d","r","o","m","e">>
Disease == <<"d","i","s","e","a","s","e">>
Disorder == <<"d","i","s","o","r","d","e","r">>

\* end of the match of (?:\s+syndrome|disease|disorder)\b after position p,
\* or 0: the whitespace belongs to the first alternative only
TailEnd(s, p) ==
    IF p + 1 <= Len(s) /\ IsSpace(s[p + 1])
    THEN AltEnd(s, RunEnd(s, p + 1, "space") + 1, <<Syndrome>>)
    ELSE AltEnd(s, p + 1, <<Disease, Disorder>>)

\* the start of the word a further \s+[A-Z][a-z]+ takes after the word that
\* ends at e, or 0
NextWord(s, e) ==
    IF e + 1 <= Len(s) /\ IsSpace(s[e + 1])
    THEN LET q == RunEnd(s, e + 1, "space")
         IN  IF q + 2 <= Len(s) /\ IsLetter(s[q + 1]) /\ IsLetter(s[q + 2])
             THEN q + 1 ELSE 0
    ELSE 0

\* end of the match of [A-Z][a-z]+(?:\s+[A-Z][a-z]+)*(?:\s+syndrome|disease|disorder)\b
\* whose current word starts at a, or 0 (IGNORECASE: both classes are the
\* letters).  The greedy search takes every further word first; when the rest
\* fails it gives the letters of the current word back one by one, down to
\* two, and tries the tail after each
RECURSIVE PhraseFrom(_, _)
PhraseFrom(s, a) ==
    LET e == RunEnd(s, a, "letter")
        next == NextWord(s, e)
        deeper == IF next = 0 THEN 0 ELSE PhraseFrom(s, next)
        ends == {p \in (a + 1)..e : TailEnd(s, p) # 0}
    IN  IF deeper # 0 THEN deeper
        ELSE IF ends = {} THEN 0
        ELSE TailEnd(s, CHOOSE p \in ends : \A q \in ends : q <= p)

PhraseEnd(s, i) ==
    IF i + 1 <= Len(s) /\ IsLetter(s[i]) /\ IsLetter(s[i + 1])
    THEN PhraseFrom(s, i) ELSE 0

\* end of the match of a pattern of NelsonDataProcessor's medical_patterns
\* at i, or 0
ProcessorMatchEnd(pattern, s, i) ==
    IF ~AtBoundary(s, i) THEN 0
    ELSE IF pattern.kind = "phrase" THEN PhraseEnd(s, i)
    ELSE AltEnd(s, i, pattern.alts)

\* re.findall(pattern, text_lower, re.IGNORECASE)
RECURSIVE ProcessorFindAll(_, _, _)
ProcessorFindAll(pattern, s, i) ==
    LET starts == {j \in i..Len(s) : ProcessorMatchEnd(pattern, s, j) # 0}
    IN  IF starts = {} THEN <<>>
        ELSE LET j == CHOOSE j \in starts : \A k \in starts : j <= k
                 e == ProcessorMatchEnd(pattern, s, j)
             IN  <<SubSeq(s, j, e)>> \o ProcessorFindAll(pattern, s, e + 1)

\* medical_patterns of NelsonDataProcessor.extract_keywords; kind "words" is
\* \b(?:alts)\b and kind "phrase" is the fifth pattern
ProcessorPatterns ==
    <<[kind |-> "words",
       alts |-> <<Syndrome, Disease, Disorder,
                  <<"c","o","n","d","i","t","i","o","n">>>>],
      [kind |-> "words",
       alts |-> <<<<"t","r","e","a","t","m","e","n","t">>,
                  <<"t","h","e","r","a","p","y">>,
                  <<"m","e","d","i","c","a","t","i","o","n">>,
                  <<"d","r","u","g">>>>],
      [kind |-> "words",
       alts |-> <<<<"d","i","a","g","n","o","s","i","s">>,
                  <<"s","y","m","p","t","o","m">>,
                  <<"s","i","g","n">>,
                  <<"m","a","n","i","f","e","s","t","a","t","i","o","n">>>>],
      [kind |-> "words",
       alts |-> <<<<"m","g","/","k","g">>,
                  <<"m","c","g","/","k","g">>,
                  <<"u","n","i","t","s","/","k","g">>>>],
      [kind |-> "phrase", alts |-> <<>>],
      [kind |-> "words",
       alts |-> <<<<"p","e","d","i","a","t","r","i","c">>,
                  <<"i","n","f","a","n","t">>,
                  <<"c","h","i","l","d">>,
                  <<"a","d","o","l","e","s","c","e","n","t">>,
                  <<"n","e","o","n","a","t","a","l">>>>]>>

\* the literal that starts at i, the first of lits in order, or <<>>
FirstLiteral(s, i, lits) ==
    LET ok == {k \in DOMAIN lits : StartsAt(s, i, lits[k])}
    IN  IF ok = {} THEN <<>>
        ELSE lits[CHOOSE k \in ok : \A j \in ok : k <= j]

\* the end of the longest run of lowercase letters that starts at i: [a-z]+
LowerRunEnd(s, i) ==
    CHOOSE j \in i..Len(s) :
        /\ \A k \in i..j : IsLower(s[k])
        /\ (j = Len(s) \/ ~IsLower(s[j + 1]))

\* the end of (?:-[a-z]+)* after position e
RECURSIVE NameEnd(_, _)
NameEnd(s, e) ==
    IF e + 2 <= Len(s) /\ s[e + 1] = "-" /\ IsLower(s[e + 2])
    THEN NameEnd(s, LowerRunEnd(s, e + 2))
    ELSE e

\* the end of (?:mg|mcg|units) after position w, or 0
UnitEnd(s, w) ==
    LET unit == FirstLiteral(s, w + 1,
                    <<<<"m","g">>, <<"m","c","g">>, <<"u","n","i","t","s">>>>)
    IN  IF unit = <<>> THEN 0 ELSE w + Len(unit)

\* the end of \s*(?:mg|mcg|units) after position d, or 0
SpacedUnitEnd(s, d) ==
    IF d + 1 <= Len(s) /\ IsSpace(s[d + 1])
    THEN UnitEnd(s, RunEnd(s, d + 1, "space"))
    ELSE UnitEnd(s, d)

\* the end of (?:-\d+)?\s*(?:mg|mcg|units) after position d, or 0
RangeEnd(s, d) ==
    IF d + 2 <= Len(s) /\ s[d + 1] = "-" /\ IsDigit(s[d + 2])
    THEN SpacedUnitEnd(s, RunEnd(s, d + 2, "digit"))
    ELSE SpacedUnitEnd(s, d)

\* the end of \s+(?:\d+(?:-\d+)?\s*(?:mg|mcg|units)) after position n, or 0
DoseEnd(s, n) ==
    IF ~(n + 1 <= Len(s) /\ IsSpace(s[n + 1])) THEN 0
    ELSE IF RunEnd(s, n + 1, "space") = Len(s) THEN 0
    ELSE IF ~IsDigit(s[RunEnd(s, n + 1, "space") + 1]) THEN 0
    ELSE RangeEnd(s, RunEnd(s, RunEnd(s, n + 1, "space") + 1, "digit"))

\* the end of the name ([A-Z][a-z]+(?:-[a-z]+)*) that starts at i, or 0
DrugNameEnd(s, i) ==
    IF AtBoundary(s, i) /\ i + 1 <= Len(s) /\ IsUpper(s[i]) /\ IsLower(s[i + 1])
    THEN NameEnd(s, LowerRunEnd(s, i + 1))
    ELSE 0

\* drug_pattern at i:
\*   \b([A-Z][a-z]+(?:-[a-z]+)*)\s+(?:\d+(?:-\d+)?\s*(?:mg|mcg|units))
\* the end of the match, or 0; no part of the match can be given back to
\* make the rest match
DrugEnd(s, i) ==
    IF DrugNameEnd(s, i) = 0 THEN 0 ELSE DoseEnd(s, DrugNameEnd(s, i))

\* re.findall(drug_pattern, text): the names, the search going on after
\* each match
RECURSIVE DrugsFrom(_, _)
DrugsFrom(s, i) ==
    LET starts == {j \in i..Len(s) : DrugEnd(s, j) # 0}
    IN  IF starts = {} THEN <<>>
        ELSE LET j == CHOOSE j \in starts : \A k \in starts : j <= k
             IN  <<SubSeq(s, j, DrugNameEnd(s, j))>>
                     \o DrugsFrom(s, DrugEnd(s, j) + 1)

\* a plausible slip: the names added as they are written
DrugKeyword_AsWritten(drug) == drug

\* drug.lower()
DrugKeyword(drug) == Lower(drug)

\* the set keywords before it is cut
ProcessorKeywordSet(t) ==
    LET text_lower == Lower(t)
        matches == [k \in DOMAIN ProcessorPatterns |->
                       ProcessorFindAll(ProcessorPatterns[k], text_lower, 1)]
        drug_matches == DrugsFrom(t, 1)
    IN  Range(Flatten(matches)) \cup {DrugKeyword(drug) : drug \in Range(drug_matches)}

\* NelsonDataProcessor.extract_keywords(text): list(keywords)[:20], any
\* MaxProcessorKeywords of the set, like extract_keywords
NelsonDataProcessor_extract_keywords(t) ==
    Slice(ProcessorKeywordSet(t), MaxProcessorKeywords)

----------------------------------------------------------------------------
(* NelsonDataProcessor.extract_sections                                     *)

\* max_tokens of chunk_text when the caller gives none
DefaultMaxTokens == 800
\* a chunk with fewer characters is skipped
MinSectionLength == 50
\* page_number = 1
FirstPage == 1
\* a first line of this many characters or more is no section title
TitleLimit == 100

\* self.category_mapping
ProcessorCategoryMapping ==
    <<[key |-> <<"A", "l", "l", "e", "r", "g", "i", "c", " ", "D", "i", "s",
                 "o", "r", "d", "e", "r">>,
       category |-> "Allergy and Immunology"],
      [key |-> <<"B", "e", "h", "a", "v", "i", "o", "u", "r", "a", "l", " ",
                 "&", " ", "p", "y", "s", "c", "h", "a", "t", "r", "i", "c",
                 "a", "l", " ", "d", "i", "s", "o", "r", "d", "e", "r">>,
       category |-> "Behavioral and Psychiatric"],
      [key |-> <<"B", "o", "n", "e", " ", "a", "n", "d", " ", "J", "o", "i",
                 "n", "t", " ", "D", "i", "s", "o", "r", "d", "e", "r", "s">>,
       category |-> "Orthopedics"],
      [key |-> <<"D", "i", "g", "e", "s", "t", "i", "v", "e", " ", "s", "y",
                 "s", "t", "e", "m">>,
       category |-> "Gastroenterology"],
      [key |-> <<"D", "i", "s", "e", "a", "s", "e", "s", " ", "o", "f", " ",
                 "t", "h", "e", " ", "B", "l", "o", "o", "d">>,
       category |-> "Hematology"],
      [key |-> <<"E", "a", "r">>,
       category |-> "Otolaryngology"],
      [key |-> <<"F", "l", "u", "i", "d", " ", "&", "e", "l", "e", "c", "t",
                 "r", "o", "l", "y", "t", "e", " ", "d", "i", "s", "o", "r",
                 "d", "e", "r">>,
       category |-> "Nephrology"],
      [key |-> <<"G", "r", "o", "w", "t", "h", " ", "d", "e", "v", "e", "l",
                 "o", "p", "m", "e", "n", "t", " ", "&", " ", "b", "e", "h",
                 "a", "v", "i", "o", "u", "r">>,
       category |-> "Developmental Pediatrics"],
      [key |-> <<"G", "y", "n", "e", "c", "o", "l", "o", "g", "i", "c", " ",
                 "H", "i", "s", "t", "o", "r", "y", " ", "a", "n", "d", " ",
                 "P", "h", "y", "s", "i", "c", "a", "l", " ", "E", "x", "a",
                 "m", "i", "n", "a", "t", "i", "o", "n">>,
       category |-> "Gynecology"],
      [key |-> <<"H", "u", "m", "a", "n", "g", "e", "n", "e", "t", "i", "c",
                 "s">>,
       category |-> "Genetics"],
      [key |-> <<"R", "e", "h", "a", "b", "i", "l", "i", "t", "a", "t", "i",
                 "o", "n", " ", "M", "e", "d", "i", "c", "i", "n", "e">>,
       category |-> "Rehabilitation"],
      [key |-> <<"R", "h", "e", "u", "m", "a", "t", "i", "c", " ", "D", "i",
                 "s", "e", "a", "s", "e">>,
       category |-> "Rheumatology"],
      [key |-> <<"S", "k", "i", "n">>,
       category |-> "Dermatology"],
      [key |-> <<"T", "h", "e", " ", "C", "a", "r", "d", "i", "o", "v", "a",
                 "s", "c", "u", "l", "a", "r", " ", "S", "y", "s", "t", "e",
                 "m">>,
       category |-> "Cardiology"],
      [key |-> <<"T", "h", "e", " ", "E", "n", "d", "o", "c", "r", "i", "n",
                 "e", " ", "S", "y", "s", "t", "e", "m">>,
       category |-> "Endocrinology"],
      [key |-> <<"T", "h", "e", " ", "N", "e", "r", "v", "o", "u", "s", " ",
                 "S", "y", "s", "t", "e", "m">>,
       category |-> "Neurology"],
      [key |-> <<"T", "h", "e", " ", "R", "e", "s", "p", "i", "r", "a", "t",
                 "o", "r", "y", " ", "S", "y", "s", "t", "e", "m">>,
       category |-> "Pulmonology"],
      [key |-> <<"U", "r", "o", "l", "o", "g", "y">>,
       category |-> "Urology"],
      [key |-> <<"a", "l", "d", "o", "c", "e", "n", "t", " ", "m", "e", "d",
                 "i", "c", "i", "n", "e">>,
       category |-> "Adolescent Medicine"],
      [key |-> <<"c", "a", "n", "c", "e", "r", " ", "&", " ", "b", "e", "n",
                 "i", "g", "n", " ", "t", "u", "m", "o", "r">>,
       category |-> "Oncology"],
      [key |-> <<"i", "m", "m", "u", "n", "o", "l", "o", "g", "y">>,
       category |-> "Immunology"],
      [key |-> <<"l", "e", "a", "r", "n", "i", "n", "g", " ", "&", " ", "d",
                 "e", "v", "e", "l", "o", "p", "m", "e", "n", "t", "a", "l",
                 " ", "d", "i", "s", "o", "r", "d", "e", "r">>,
       category |-> "Developmental Pediatrics"],
      [key |-> <<"m", "e", "t", "a", "b", "o", "l", "i", "c", " ", "d", "i",
                 "s", "o", "r", "d", "e", "r">>,
       category |-> "Metabolism"]>>

\* s.replace(old, new), old not empty
RECURSIVE Replace(_, _, _)
Replace(s, old, new) ==
    LET at == {i \in 1..Len(s) : StartsAt(s, i, old)}
    IN  IF at = {} THEN s
        ELSE LET i == CHOOSE i \in at : \A k \in at : i <= k
             IN  SubSeq(s, 1, i - 1) \o new
                     \o Replace(SubSeq(s, i + Len(old), Len(s)), old, new)

\* filename.replace('.txt', '')
Stem(name) == Replace(name, <<".","t","x","t">>, <<>>)

\* a plausible slip: get without its default
CategoryOf_NoDefault(key) ==
    LET hit == {i \in DOMAIN ProcessorCategoryMapping :
                   ProcessorCategoryMapping[i].key = key}
    IN  IF hit = {} THEN "none"
        ELSE ProcessorCategoryMapping[CHOOSE i \in hit : TRUE].category

\* self.category_mapping.get(key, 'General Pediatrics')
CategoryOf(key) ==
    LET hit == {i \in DOMAIN ProcessorCategoryMapping :
                   ProcessorCategoryMapping[i].key = key}
    IN  IF hit = {} THEN "General Pediatrics"
        ELSE ProcessorCategoryMapping[CHOOSE i \in hit : TRUE].category

\* str(n) for a natural number
RECURSIVE Decimal(_)
Decimal(n) ==
    LET digit == <<"0","1","2","3","4","5","6","7","8","9">>[(n % 10) + 1]
    IN  IF n < 10 THEN <<digit>> ELSE Decimal(n \div 10) \o <<digit>>

TitleWords ==
    <<<<"t","r","e","a","t","m","e","n","t">>,
      <<"d","i","a","g","n","o","s","i","s">>,
      <<"s","y","m","p","t","o","m","s">>,
      <<"p","a","t","h","o","p","h","y","s","i","o","l","o","g","y">>,
      <<"e","p","i","d","e","m","i","o","l","o","g","y">>>>

\* the section title of chunk i (0-based); the texts of the model have no
\* line break, so the first line of a chunk is the chunk
SectionTitle(name, i, chunk) ==
    LET first_line == Strip(chunk)
    IN  IF CharCount(first_line) < TitleLimit
            /\ AnyTerm(TitleWords, Lower(first_line))
        THEN first_line
        ELSE Stem(name) \o <<" ","-"," ","P","a","r","t"," ">> \o Decimal(i + 1)

\* a plausible slip: the page number never advanced
PageNumber_Fixed(i) == FirstPage

\* page_number + i
PageNumber(i) == FirstPage + i

\* a plausible slip: <= for <
TooShort_AtMost(chunk) == CharCount(Strip(chunk)) <= MinSectionLength

\* if len(chunk.strip()) < 50
TooShort(chunk) == CharCount(Strip(chunk)) < MinSectionLength

\* the dict appended for chunk i, with one of the possible keyword lists
Section(name, i, chunk, kw) ==
    [chapter |-> Replace(Stem(name), <<"_">>, <<" ">>),
     section |-> SectionTitle(name, i, chunk),
     page_number |-> PageNumber(i),
     content |-> chunk,
     keywords |-> kw,
     medical_category |-> CategoryOf(Stem(name)),
     age_group |-> "Pediatric"]

\* for i, chunk in enumerate(chunks): a short chunk is passed over
SkipChunk ==
    /\ spc = "loop" /\ pc = "done"
    /\ sec_i < Len(chunks)
    /\ TooShort(chunks[sec_i + 1])
    /\ sec_i' = sec_i + 1
    /\ UNCHANGED <<filename, sections, spc, chunkVars, classVars, ioVars>>

\* for i, chunk in enumerate(chunks): a section is appended
AddSection ==
    /\ spc = "loop" /\ pc = "done"
    /\ sec_i < Len(chunks)
    /\ ~TooShort(chunks[sec_i + 1])
    /\ \E kw \in NelsonDataProcessor_extract_keywords(chunks[sec_i + 1]) :
          sections' = Append(sections,
                          Section(filename, sec_i, chunks[sec_i + 1], kw))
    /\ sec_i' = sec_i + 1
    /\ UNCHANGED <<filename, spc, chunkVars, classVars, ioVars>>

\* return sections
ReturnSections ==
    /\ spc = "loop" /\ pc = "done"
    /\ sec_i = Len(chunks)
    /\ spc' = "done"
    /\ UNCHANGED <<filename, sec_i, sections, chunkVars, classVars, ioVars>>

----------------------------------------------------------------------------
(* Inputs of extract_sections                                               *)

\* most sentences of an enumerated document
MaxSentences == 3

\* "Mild fever."
ShortSentence == <<"M","i","l","d"," ","f","e","v","e","r",".">>
\* "An infant has heart disease and fever, see above." (49 characters)
Sentence49 ==
    <<"A", "n", " ", "i", "n", "f", "a", "n", "t", " ", "h", "a", "s", " ",
      "h", "e", "a", "r", "t", " ", "d", "i", "s", "e", "a", "s", "e", " ",
      "a", "n", "d", " ", "f", "e", "v", "e", "r", ",", " ", "s", "e", "e",
      " ", "a", "b", "o", "v", "e", ".">>
\* "Medication 2500 mg for a child with Down syndrome." (50 characters)
Sentence50 ==
    <<"M", "e", "d", "i", "c", "a", "t", "i", "o", "n", " ", "2", "5", "0",
      "0", " ", "m", "g", " ", "f", "o", "r", " ", "a", " ", "c", "h", "i",
      "l", "d", " ", "w", "i", "t", "h", " ", "D", "o", "w", "n", " ", "s",
      "y", "n", "d", "r", "o", "m", "e", ".">>
\* a sentence of 701 tokens and one of 901 tokens
Sentence700 == <<"<long word of 700 tokens>", ".">>
Sentence900 == <<"<long word of 900 tokens>", ".">>

SentenceKinds == {ShortSentence, Sentence49, Sentence50, Sentence700, Sentence900}

\* the sentences of a list joined by single spaces
RECURSIVE Joined(_)
Joined(ss) ==
    IF ss = <<>> THEN <<>>
    ELSE IF Len(ss) = 1 THEN ss[1]
    ELSE ss[1] \o <<" ">> \o Joined(Tail(ss))

\* a text with more distinct keywords than
\* NelsonDataProcessor.extract_keywords returns
RichDocument ==
    <<"s", "y", "n", "d", "r", "o", "m", "e", ",", " ", "d", "i", "s", "e",
      "a", "s", "e", ",", " ", "d", "i", "s", "o", "r", "d", "e", "r", ",",
      " ", "c", "o", "n", "d", "i", "t", "i", "o", "n", ",", " ", "t", "r",
      "e", "a", "t", "m", "e", "n", "t", ",", " ", "t", "h", "e", "r", "a",
      "p", "y", ",", " ", "m", "e", "d", "i", "c", "a", "t", "i", "o", "n",
      ",", " ", "d", "r", "u", "g", ",", " ", "d", "i", "a", "g", "n", "o",
      "s", "i", "s", ",", " ", "s", "y", "m", "p", "t", "o", "m", ",", " ",
      "s", "i", "g", "n", ",", " ", "m", "a", "n", "i", "f", "e", "s", "t",
      "a", "t", "i", "o", "n", ",", " ", "m", "g", "/", "k", "g", ",", " ",
      "m", "c", "g", "/", "k", "g", ",", " ", "u", "n", "i", "t", "s", "/",
      "k", "g", ",", " ", "p", "e", "d", "i", "a", "t", "r", "i", "c", ",",
      " ", "i", "n", "f", "a", "n", "t", ",", " ", "c", "h", "i", "l", "d",
      ",", " ", "a", "d", "o", "l", "e", "s", "c", "e", "n", "t", ",", " ",
      "n", "e", "o", "n", "a", "t", "a", "l", ",", " ", "A", "m", "o", "x",
      "i", "c", "i", "l", "l", "i", "n", " ", "2", "5", "0", " ", "m", "g">>

Documents ==
    {Joined(ss) : ss \in UNION {[1..n -> SentenceKinds] : n \in 0..MaxSentences}}
        \cup {<<" ">>, RichDocument}

BaseDocuments ==
    {Sentence50, Joined(<<ShortSentence, Sentence900, Sentence50>>)}

TxtSuffix == <<".","t","x","t">>

Filenames ==
    {key \o TxtSuffix : key \in ChapterNames}
        \cup {<<"T","h","e","_","N","e","r","v","o","u","s","_","S","y","s","t","e","m">>
                  \o TxtSuffix,
              <<"e","a","r">> \o TxtSuffix,
              <<"n","o","t","e","s">> \o TxtSuffix,
              <<"S","k","i","n">> \o TxtSuffix \o TxtSuffix,
              <<"S","k","i","n">>}

SectionCalls ==
    (Documents \X {<<"E","a","r">> \o TxtSuffix}) \cup (BaseDocuments \X Filenames)

\* extract_sections(text, filename), about to call self.chunk_text(text)
SectionsInit ==
    /\ \E call \in SectionCalls :
          /\ text = call[1]
          /\ filename = call[2]
    /\ max_tokens = DefaultMaxTokens
    /\ tokenizer = "cl100k"
    /\ sentences = <<>>
    /\ idx = 1
    /\ chunks = <<>>
    /\ current_chunk = <<>>
    /\ current_tokens = 0
    /\ pc = "split"
    /\ sec_i = 0
    /\ sections = <<>>
    /\ spc = "loop"
    /\ ClassIdle
    /\ IoIdle

SectionsNext ==
    \/ SplitSentences
    \/ StartNewChunk
    \/ ExtendChunk
    \/ Finish
    \/ SkipChunk
    \/ AddSection
    \/ ReturnSections

SectionsSpec == SectionsInit /\ [][SectionsNext]_vars

----------------------------------------------------------------------------
(* The two scripts, and the classification run again                        *)

\* the script run once more on the same dataset: the row classified before
\* is classified again, in another interpreter process
Rerun ==
    /\ cpc = "done"
    /\ rerun = <<>>
    /\ \E kw \in extract_keywords(content) :
          LET result == categorize_content(chapter, content)
          IN  rerun' = <<[keywords |-> kw,
                          medical_category |-> result[1],
                          age_group |-> result[2]]>>
    /\ UNCHANGED <<chapter, content, medical_category, age_group, keywords, cpc,
                   chunkVars, sectVars, ioVars>>

\* a row of the dataset is classified, or a text file is cut into sections
PipelineInit == ClassifyInit \/ SectionsInit

PipelineNext ==
    \/ ExtractKeywords
    \/ Categorize
    \/ Rerun
    \/ SplitSentences
    \/ StartNewChunk
    \/ ExtendChunk
    \/ Finish
    \/ SkipChunk
    \/ AddSection
    \/ ReturnSections

PipelineSpec == PipelineInit /\ [][PipelineNext]_vars

----------------------------------------------------------------------------
(* The upload loops over nelson_textbook_dataset.csv                        *)
(* (simple_upload.upload_nelson_data,                                       *)
(*  upload_new_schema.upload_nelson_textbook_data,                          *)
(*  setup_and_upload.upload_data, direct_postgres_upload.upload_nelson_data) *)

(* A row of the CSV file is its page_number field, the only field whose    *)
(* value decides whether the preparation of the record raises; an insert   *)
(* call is recorded with the row numbers of the records it carried.        *)

\* the most rows a file of the model has beyond one full batch
MaxExtraRows == 2
\* the most rows of a file of the model whose page_number is not a number
MaxOddRows == 2

UploadScripts ==
    {"simple_upload", "upload_new_schema", "setup_and_upload",
     "direct_postgres_upload"}

\* batch_size of each script
BatchSize(s) ==
    CASE s = "simple_upload" -> 5
      [] s = "upload_new_schema" -> 25
      [] s = "setup_and_upload" -> 10
      [] s = "direct_postgres_upload" -> 50

\* values of the page_number field: a number, a digit that int() does not
\* read, a word, nothing
PageNumbers == {"12", "²", "abc", ""}
\* str.isdigit() is true of these
DigitStrings == {"12", "²"}
\* int() reads these
IntStrings == {"12"}

\* simple_upload and direct_postgres_upload test isdigit() before int()
ChecksDigits(s) == s \in {"simple_upload", "direct_postgres_upload"}

\* the record of the row is built without an exception:
\*   int(row['page_number']) if row.get('page_number') and row['page_number'].isdigit() else None
\*   int(row['page_number']) if row['page_number'] else None
Prepares(s, page_number) ==
    IF ChecksDigits(s)
    THEN page_number \in DigitStrings => page_number \in IntStrings
    ELSE page_number # "" => page_number \in IntStrings

\* only simple_upload has a try around the insert call itself
CatchesInsertError(s) == s = "simple_upload"

\* what an insert call of n records may answer: an exception, or result.data
\* with no record, with every record, or with all but one; executemany of
\* direct_postgres_upload answers nothing, it returns or raises
InsertAnswers(s, n) ==
    {[raised |-> TRUE, data |-> 0], [raised |-> FALSE, data |-> n]}
        \cup (IF s = "direct_postgres_upload" THEN {}
              ELSE {[raised |-> FALSE, data |-> k] : k \in {0, n - 1} \cap Nat})

\* a plausible slip: the error ends the loop
AfterRowError_Stop(all, n) == Len(all)

\* except Exception ...: continue, the loop takes the next row
AfterRowError(all, n) == n + 1

\* a plausible slip: a failed batch counted as one failure
FailedBatch_One(batch) == 1

\* failed += len(batch_data)
FailedBatch(batch) == Len(batch)

\* the insert call as the store sees it
Call(batch, answer) ==
    [batch |-> batch, raised |-> answer.raised, data |-> answer.data]

\* the row is taken from the reader and its preparation raises
SkipRow ==
    /\ script \in UploadScripts
    /\ returned = <<>>
    /\ row_num < Len(rows)
    /\ ~Prepares(script, rows[row_num + 1])
    /\ failed' = failed + 1
    /\ row_num' = AfterRowError(rows, row_num)
    /\ UNCHANGED <<script, rows, batch_size, batch_data, successful, calls, returned,
                   chunkVars, classVars, sectVars, fileVars>>

\* the record of the row is appended and the batch is not full yet
BufferRow ==
    /\ script \in UploadScripts
    /\ returned = <<>>
    /\ row_num < Len(rows)
    /\ Prepares(script, rows[row_num + 1])
    /\ Len(batch_data) + 1 < batch_size
    /\ batch_data' = Append(batch_data, row_num + 1)
    /\ row_num' = row_num + 1
    /\ UNCHANGED <<script, rows, batch_size, successful, failed, calls, returned,
                   chunkVars, classVars, sectVars, fileVars>>

\* the counters and the batch after an insert call inside the loop
InsertInLoop(batch, answer) ==
    /\ calls' = Append(calls, Call(batch, answer))
    /\ IF answer.raised
       THEN /\ successful' = successful
            /\ IF CatchesInsertError(script)
               THEN failed' = failed + FailedBatch(batch) /\ batch_data' = <<>>
               \* the handler of the row catches it: the batch stays
               ELSE failed' = failed + 1 /\ batch_data' = batch
       ELSE /\ batch_data' = <<>>
            /\ IF answer.data > 0
               THEN successful' = successful + answer.data /\ failed' = failed
               ELSE successful' = successful /\ failed' = failed + FailedBatch(batch)

\* the record of the row fills the batch, which is inserted
InsertBatch ==
    /\ script \in UploadScripts
    /\ returned = <<>>
    /\ row_num < Len(rows)
    /\ Prepares(script, rows[row_num + 1])
    /\ Len(batch_data) + 1 >= batch_size
    /\ \E answer \in InsertAnswers(script, Len(batch_data) + 1) :
          InsertInLoop(Append(batch_data, row_num + 1), answer)
    /\ row_num' = row_num + 1
    /\ UNCHANGED <<script, rows, batch_size, returned, chunkVars, classVars, sectVars, fileVars>>

\* the counters and the result after the insert of the remaining records
InsertRemaining(batch, answer) ==
    /\ calls' = Append(calls, Call(batch, answer))
    /\ IF answer.raised
       THEN /\ successful' = successful
            /\ IF CatchesInsertError(script)
               THEN /\ failed' = failed + FailedBatch(batch)
                    /\ returned' = <<[successful |-> successful,
                                      failed |-> failed + FailedBatch(batch)]>>
               ELSE /\ failed' = failed
                    /\ IF script = "setup_and_upload"
                       \* the error is printed and upload_data goes on
                       THEN returned' = <<[successful |-> successful,
                                           failed |-> failed]>>
                       \* except Exception as e: ... return 0, 0
                       ELSE returned' = <<[successful |-> 0, failed |-> 0]>>
       ELSE IF answer.data > 0
       THEN /\ successful' = successful + answer.data
            /\ failed' = failed
            /\ returned' = <<[successful |-> successful + answer.data,
                              failed |-> failed]>>
       ELSE IF script = "setup_and_upload"
       \* no else branch: the records are not counted
       THEN /\ successful' = successful
            /\ failed' = failed
            /\ returned' = <<[successful |-> successful, failed |-> failed]>>
       ELSE /\ successful' = successful
            /\ failed' = failed + FailedBatch(batch)
            /\ returned' = <<[successful |-> successful,
                              failed |-> failed + FailedBatch(batch)]>>

\* after the loop no record is waiting: return successful, failed
ReturnCounts ==
    /\ script \in UploadScripts
    /\ returned = <<>>
    /\ row_num >= Len(rows)
    /\ batch_data = <<>>
    /\ returned' = <<[successful |-> successful, failed |-> failed]>>
    /\ UNCHANGED <<script, rows, batch_size, row_num, batch_data, successful, failed, calls,
                   chunkVars, classVars, sectVars, fileVars>>

\* after the loop: the remaining records are inserted, then return
FinishUpload ==
    /\ script \in UploadScripts
    /\ returned = <<>>
    /\ row_num >= Len(rows)
    /\ batch_data # <<>>
    /\ \E answer \in InsertAnswers(script, Len(batch_data)) :
          InsertRemaining(batch_data, answer)
    /\ UNCHANGED <<script, rows, batch_size, row_num, batch_data, chunkVars, classVars,
                   sectVars, fileVars>>

\* the numbers of rows of the files of the model, for a batch size
RowCounts(size) ==
    {0, 1, 2 * size + MaxExtraRows} \cup (size - 1 .. size + MaxExtraRows)

\* the rows whose page_number may be something else than a number: the
\* first, those around the end of the first batch, the last
OddPlaces(size, n) == {k \in {1, size - 1, size, size + 1, n} : k \in 1..n}

\* the files of n rows: every page_number is "12" but those at odd
CsvFile(n, odd, value) ==
    [k \in 1..n |-> IF k \in odd THEN value[k] ELSE "12"]

CsvFiles(size) ==
    UNION {UNION {{CsvFile(n, odd, value) : value \in [odd -> PageNumbers \ {"12"}]} :
                     odd \in {o \in SUBSET OddPlaces(size, n) :
                                 Cardinality(o) <= MaxOddRows}} :
              n \in RowCounts(size)}

\* the script starts: successful = 0, failed = 0, batch_data = []
UploadInit ==
    /\ script \in UploadScripts
    /\ batch_size = BatchSize(script)
    /\ rows \in CsvFiles(batch_size)
    /\ row_num = 0
    /\ batch_data = <<>>
    /\ successful = 0
    /\ failed = 0
    /\ calls = <<>>
    /\ returned = <<>>
    /\ ChunkIdle
    /\ ClassIdle
    /\ SectIdle
    /\ FileIdle

UploadNext ==
    \/ SkipRow
    \/ BufferRow
    \/ InsertBatch
    \/ ReturnCounts
    \/ FinishUpload

\* the loop is one sequential thread: it takes its next step
UploadSpec == UploadInit /\ [][UploadNext]_vars /\ WF_vars(UploadNext)

\* simple_upload.upload_nelson_data alone
SimpleUploadInit == UploadInit /\ script = "simple_upload"

SimpleUploadSpec == SimpleUploadInit /\ [][UploadNext]_vars /\ WF_vars(UploadNext)

----------------------------------------------------------------------------
(* The batch loops over a list of records                                   *)
(* (upload_to_supabase.upload_to_supabase,                                  *)
(*  NelsonDataProcessor.upload_to_supabase)                                 *)

(* A record is "text" when its content is a string and "none" when it has  *)
(* none; an insert call is recorded with the positions of the records it   *)
(* carried in the list and with the embedding each of them carried.        *)

\* largest enumerated batch_size other than those the scripts use
MaxBatch == 3
\* length of the vector generate_embedding returns when the service fails
FallbackLength == 1536

BatchScripts == {"upload_to_supabase", "data_processor"}

\* batch_size: the parameter of upload_to_supabase.upload_to_supabase (50 by
\* default, 25 from main), the local of NelsonDataProcessor.upload_to_supabase
BatchSizes(s) ==
    IF s = "data_processor" THEN {10} ELSE (1..MaxBatch) \cup {25, 50}

\* generate_mock_embedding(record['content']) raises when the content is
\* not a string (text.encode())
RecordPrepares(kind) == kind = "text"

\* a vector as the embedding service (or generate_mock_embedding) answers
\* it: a list of numbers
ServiceVector == <<3, 4>>

\* a plausible slip: the dimension of the other scripts' vectors
ZeroVector_Short == [i \in 1..1024 |-> 0]

\* [0.0] * 1536
ZeroVector == [i \in 1..FallbackLength |-> 0]

\* NelsonDataProcessor.generate_embedding(text), service being what the
\* call of the embedding service does: "answers" or "raises"
generate_embedding(service) ==
    IF service = "raises" THEN ZeroVector ELSE ServiceVector

\* a plausible slip: the slice one record too long
BatchAt_Overlap(n, i, size) == [j \in 1..(Min(i + size + 1, n) - i) |-> i + j]

\* records[i:i + batch_size], as positions in the list (1-based)
BatchAt(n, i, size) == [j \in 1..(Min(i + size, n) - i) |-> i + j]

\* the insert call as the store sees it
BatchCall(data, answer, service) ==
    [batch |-> data, raised |-> answer.raised, data |-> answer.data,
     service |-> service,
     embeddings |-> [j \in DOMAIN service |-> generate_embedding(service[j])]]

\* upload_to_supabase.upload_to_supabase: the counters after a batch
CountBatch(batch, data, answer) ==
    /\ calls' = Append(calls, BatchCall(data, answer, [j \in DOMAIN data |-> "answers"]))
    /\ IF ~answer.raised /\ answer.data > 0
       THEN /\ successful' = successful + answer.data
            /\ failed' = failed + (Len(batch) - Len(data))
       ELSE /\ successful' = successful
            /\ failed' = failed + (Len(batch) - Len(data)) + Len(data)

\* upload_to_supabase.upload_to_supabase: batch_data is inserted
InsertPrepared(batch, data) ==
    \E answer \in InsertAnswers(script, Len(data)) : CountBatch(batch, data, answer)

\* upload_to_supabase.upload_to_supabase, one round of the loop: the records
\* of the batch are prepared, those that raise are skipped, the rest is
\* inserted
UploadBatch ==
    /\ script = "upload_to_supabase"
    /\ returned = <<>>
    /\ row_num < Len(rows)
    /\ InsertPrepared(BatchAt(Len(rows), row_num, batch_size),
                      SelectSeq(BatchAt(Len(rows), row_num, batch_size),
                                LAMBDA k : RecordPrepares(rows[k])))
    /\ row_num' = row_num + batch_size
    /\ UNCHANGED <<script, rows, batch_size, batch_data, returned,
                   chunkVars, classVars, sectVars, fileVars>>

\* upload_to_supabase.upload_to_supabase after the loop: the success rate is
\* printed, which divides by len(records), and the counters are returned
FinishBatches ==
    /\ script = "upload_to_supabase"
    /\ returned = <<>>
    /\ row_num >= Len(rows)
    /\ returned' = IF Len(rows) = 0
                   THEN <<[raised |-> "ZeroDivisionError"]>>
                   ELSE <<[successful |-> successful, failed |-> failed]>>
    /\ UNCHANGED <<script, rows, batch_size, row_num, batch_data, successful,
                   failed, calls, chunkVars, classVars, sectVars, fileVars>>

\* the sections of a batch whose embedding the service may fail to give, in
\* the model: the first and the last
MayFail(batch) == {batch[j] : j \in {1, Len(batch)}}

\* NelsonDataProcessor.upload_to_supabase: the batch with its embeddings is
\* inserted; whatever the insert answers, the loop goes on
InsertEmbedded(batch, down) ==
    \E answer \in InsertAnswers(script, Len(batch)) :
        calls' = Append(calls,
                        BatchCall(batch, answer,
                                  [j \in DOMAIN batch |->
                                      IF batch[j] \in down THEN "raises" ELSE "answers"]))

\* NelsonDataProcessor.upload_to_supabase, one round of the loop: every
\* section of the batch gets its embedding, then the batch is inserted
EmbedAndInsert ==
    /\ script = "data_processor"
    /\ returned = <<>>
    /\ row_num < Len(rows)
    /\ \E down \in SUBSET MayFail(BatchAt(Len(rows), row_num, batch_size)) :
          InsertEmbedded(BatchAt(Len(rows), row_num, batch_size), down)
    /\ row_num' = row_num + batch_size
    /\ UNCHANGED <<script, rows, batch_size, batch_data, successful, failed,
                   returned, chunkVars, classVars, sectVars, fileVars>>

\* NelsonDataProcessor.upload_to_supabase after the loop: it returns None
ReturnNone ==
    /\ script = "data_processor"
    /\ returned = <<>>
    /\ row_num >= Len(rows)
    /\ returned' = <<[result |-> "None"]>>
    /\ UNCHANGED <<script, rows, batch_size, row_num, batch_data, successful,
                   failed, calls, chunkVars, classVars, sectVars, fileVars>>

\* the list of n records whose content is a string but for those at odd
RecordList(n, odd) == [k \in 1..n |-> IF k \in odd THEN "none" ELSE "text"]

\* the lists the loops are given: the sections of extract_sections all have
\* a content
RecordLists(s, size) ==
    UNION {{RecordList(n, odd) :
               odd \in {o \in SUBSET OddPlaces(size, n) :
                           /\ Cardinality(o) <= MaxOddRows
                           /\ s = "data_processor" => o = {}}} :
              n \in RowCounts(size)}

BatchInit ==
    /\ script \in BatchScripts
    /\ batch_size \in BatchSizes(script)
    /\ rows \in RecordLists(script, batch_size)
    /\ row_num = 0
    /\ batch_data = <<>>
    /\ successful = 0
    /\ failed = 0
    /\ calls = <<>>
    /\ returned = <<>>
    /\ ChunkIdle
    /\ ClassIdle
    /\ SectIdle
    /\ FileIdle

BatchNext ==
    \/ UploadBatch
    \/ FinishBatches
    \/ EmbedAndInsert
    \/ ReturnNone

BatchSpec == BatchInit /\ [][BatchNext]_vars

----------------------------------------------------------------------------
(* Properties of the classifier                                             *)

Classified == cpc = "done"

\* C8: classifying the empty chapter and the empty content gives the default
\* category, the default age group and no keyword.
C8_EmptyInputDefaults ==
    (Classified /\ chapter = <<>> /\ content = <<>>) =>
        /\ medical_category = "General Pediatrics"
        /\ age_group = "Pediatric"
        /\ keywords = {}

\* C8 witness: the empty inputs have been classified
C8_Witness ==
    Classified /\ chapter = <<>> /\ content = <<>>

\* the positions of the pairs of the category table whose substring occurs
\* in the lowercased label
MatchingKeys(label) ==
    LET lowered == Lower(label)
    IN  {i \in DOMAIN CategoryMapping : Contains(CategoryMapping[i].key, lowered)}

\* C9: the category is that of the first pair, in table order, whose
\* substring occurs in the lowercased chapter label, and "General
\* Pediatrics" when there is none.
C9_FirstCategoryMatchWins ==
    Classified =>
        LET m == MatchingKeys(chapter)
        IN  IF m = {} THEN medical_category = "General Pediatrics"
            ELSE \E i \in m :
                    /\ \A j \in m : i <= j
                    /\ medical_category = CategoryMapping[i].category

\* C9 witness: a label in which a later, longer substring also occurs, with
\* another category
C9_Witness ==
    /\ Classified
    /\ \E i, j \in MatchingKeys(chapter) :
          /\ i < j
          /\ Len(CategoryMapping[i].key) < Len(CategoryMapping[j].key)
          /\ CategoryMapping[i].category # CategoryMapping[j].category
          /\ medical_category = CategoryMapping[i].category

\* the positions of the age rules one of whose terms occurs in the
\* lowercased content
MatchingRules(co) ==
    LET lowered == Lower(co)
    IN  {i \in DOMAIN AgeRules :
            \E k \in DOMAIN AgeRules[i].terms :
                Contains(AgeRules[i].terms[k], lowered)}

AgeOrder == <<"Neonatal", "Infant", "Toddler", "School Age", "Adolescent">>

\* C10: the age group is the label of the first rule, in the order Neonatal,
\* Infant, Toddler, School Age, Adolescent, one of whose terms occurs in the
\* lowercased content, and "Pediatric" when there is none.
C10_FirstAgeRuleWins ==
    /\ [i \in DOMAIN AgeRules |-> AgeRules[i].age_group] = AgeOrder
    /\ Classified =>
        LET m == MatchingRules(content)
        IN  IF m = {} THEN age_group = "Pediatric"
            ELSE \E i \in m :
                    /\ \A j \in m : i <= j
                    /\ age_group = AgeOrder[i]

\* C10 witness: content with both "infant" and "newborn" is Neonatal
C10_Witness ==
    /\ Classified
    /\ Contains(<<"i","n","f","a","n","t">>, Lower(content))
    /\ Contains(<<"n","e","w","b","o","r","n">>, Lower(content))
    /\ age_group = "Neonatal"

\* the characters of a text that is empty or made of whitespace and
\* punctuation only
Blank(s) == \A i \in 1..Len(s) : IsSpace(s[i]) \/ IsSymbol(s[i])

\* C14: for a content that is empty or holds only whitespace and
\* punctuation, and a chapter label in which no configured substring occurs,
\* the classification completes with the category "General Pediatrics", the
\* age group "Pediatric" and no keyword.
C14_BlankContentDefaults ==
    (Classified /\ Blank(content) /\ MatchingKeys(chapter) = {}) =>
        /\ medical_category = "General Pediatrics"
        /\ age_group = "Pediatric"
        /\ keywords = {}

\* C14 witness: a content of whitespace and punctuation has been classified
\* under a label that is not empty and matches nothing
C14_Witness ==
    /\ Classified
    /\ content # <<>> /\ Blank(content)
    /\ chapter # <<>> /\ MatchingKeys(chapter) = {}
    /\ keywords = {}

\* the terms of the flat list that occur in the lowercased content
TermsIn(co) ==
    LET lowered == Lower(co)
    IN  {MedicalTerms[k] : k \in {j \in DOMAIN MedicalTerms :
                                     Contains(MedicalTerms[j], lowered)}}

\* C18: a term of the flat list that occurs as a substring of the lowercased
\* content is a candidate, so it is returned when there are at most ten
\* distinct candidates; a term of the list that does not occur as a
\* substring is not returned.
C18_TermsBySubstring ==
    Classified =>
        /\ TermsIn(content) \subseteq Range(KeywordList(content))
        /\ Cardinality(Range(KeywordList(content))) <= 10
               => TermsIn(content) \subseteq keywords
        /\ \A k \in DOMAIN MedicalTerms :
               MedicalTerms[k] \notin TermsIn(content)
                   => MedicalTerms[k] \notin keywords

\* C18 witness: "feverishdiagnoses" gives "fever", found inside a longer
\* word, and does not give "diagnosis"
C18_Witness ==
    /\ Classified
    /\ Contains(<<"d","i","a","g","n","o","s","e","s">>, Lower(content))
    /\ Contains(<<"f","e","v","e","r","i","s","h">>, Lower(content))
    /\ <<"f","e","v","e","r">> \in keywords
    /\ <<"d","i","a","g","n","o","s","i","s">> \notin keywords

\* C19: "newborn screening protocol" under the label "Neonatology" is
\* Neonatal, and its category is that of a configured substring occurring in
\* "neonatology" when there is one and "General Pediatrics" otherwise.
C19_NewbornScreening ==
    (Classified /\ chapter = Neonatology /\ content = ScreeningText) =>
        /\ age_group = "Neonatal"
        /\ IF MatchingKeys(Neonatology) = {}
           THEN medical_category = "General Pediatrics"
           ELSE \E i \in MatchingKeys(Neonatology) :
                    medical_category = CategoryMapping[i].category

\* C19 witness: that call has been classified
C19_Witness ==
    /\ Classified
    /\ chapter = Neonatology
    /\ content = ScreeningText
    /\ age_group = "Neonatal"

----------------------------------------------------------------------------
(* Properties of extract_sections                                           *)

Returned == spc = "done"

\* C16: the section built from the chunk at 0-based position i has
\* page_number 1 + i, and the sections come in chunk order, so their page
\* numbers are strictly increasing and pairwise distinct.
C16_PageNumberIsPosition ==
    spc \in {"loop", "done"} =>
        \A k \in 1..Len(sections) :
            LET i == sections[k].page_number - 1
            IN  /\ i \in 0..(Len(chunks) - 1)
                /\ sections[k].content = chunks[i + 1]
                /\ \A j \in 1..(k - 1) :
                       sections[j].page_number < sections[k].page_number

\* C16 witness: three chunks of which the second is skipped: the sections
\* have the page numbers 1 and 3
C16_Witness ==
    /\ Returned
    /\ Len(chunks) = 3
    /\ Len(sections) = 2
    /\ sections[1].page_number = 1
    /\ sections[2].page_number = 3

\* the chunks among the first n that have at least 50 characters once
\* stripped
LongEnough(n) ==
    SelectSeq(SubSeq(chunks, 1, n), LAMBDA c : CharCount(Strip(c)) >= 50)

\* C17: the chunks whose stripped length is less than 50 give no section,
\* and every other chunk gives exactly one section, in order.
C17_ShortChunksSkipped ==
    (spc \in {"loop", "done"} /\ pc = "done") =>
        [k \in 1..Len(sections) |-> sections[k].content] = LongEnough(sec_i)

\* C17 witness: of three chunks, the one of 49 characters is skipped and the
\* one of 50 characters gives a section
C17_Witness ==
    /\ Returned
    /\ sec_i = 3
    /\ CharCount(Strip(chunks[1])) = 49
    /\ CharCount(Strip(chunks[3])) = 50
    /\ Len(sections) = 2
    /\ sections[2].content = chunks[3]

----------------------------------------------------------------------------
(* Properties of both scripts                                               *)

\* C11: classifying the same chapter and content again gives the same
\* category, the same age group and the same keywords, also when there are
\* more candidate keywords than are returned.
C11_SameResultEveryRun ==
    rerun # <<>> =>
        /\ rerun[1].medical_category = medical_category
        /\ rerun[1].age_group = age_group
        /\ rerun[1].keywords = keywords

\* the category and the age group, at least, are the same in every run
C11_SameCategoryEveryRun ==
    rerun # <<>> =>
        /\ rerun[1].medical_category = medical_category
        /\ rerun[1].age_group = age_group

\* C12: extract_keywords returns at most 10 keywords and
\* NelsonDataProcessor.extract_keywords at most 20.
C12_KeywordsCapped ==
    /\ Cardinality(keywords) <= 10
    /\ rerun # <<>> => Cardinality(rerun[1].keywords) <= 10
    /\ \A k \in 1..Len(sections) : Cardinality(sections[k].keywords) <= 20

\* C12 witness: a section with 20 keywords whose content has more
C12_Witness ==
    /\ Returned
    /\ Len(sections) = 1
    /\ Cardinality(sections[1].keywords) = 20
    /\ Cardinality(ProcessorKeywordSet(sections[1].content)) > 20

\* no two strings of the set are equal when case is ignored
CaseDistinct(kws) == \A a, b \in kws : Lower(a) = Lower(b) => a = b

\* C13: no two keywords of a returned list are equal when case is ignored,
\* for both implementations.
C13_KeywordsCaseDistinct ==
    /\ CaseDistinct(keywords)
    /\ \A k \in 1..Len(sections) : CaseDistinct(sections[k].keywords)

\* C13 witness: a name written "Medication" before a dose is the keyword
\* "medication", which the lowercased text gives as well
C13_Witness ==
    /\ Returned
    /\ Len(sections) >= 1
    /\ Contains(<<"M","e","d","i","c","a","t","i","o","n"," ","2","5","0","0">>,
                sections[1].content)
    /\ <<"m","e","d","i","c","a","t","i","o","n">> \in sections[1].keywords
    /\ <<"M","e","d","i","c","a","t","i","o","n">> \notin sections[1].keywords

\* the categories and age groups of the two tables
ClassifierCategories ==
    {CategoryMapping[i].category : i \in DOMAIN CategoryMapping}
ClassifierAgeGroups == {AgeRules[i].age_group : i \in DOMAIN AgeRules}
ProcessorCategories ==
    {ProcessorCategoryMapping[i].category : i \in DOMAIN ProcessorCategoryMapping}
ProcessorKeys ==
    {ProcessorCategoryMapping[i].key : i \in DOMAIN ProcessorCategoryMapping}

\* C15: every section of extract_sections and every record of
\* process_existing_dataset has a category and an age group, which are
\* "General Pediatrics" and "Pediatric" when nothing matches.
C15_CategoryAndAgeSet ==
    /\ Classified =>
          /\ medical_category \in ClassifierCategories \cup {"General Pediatrics"}
          /\ age_group \in ClassifierAgeGroups \cup {"Pediatric"}
          /\ MatchingKeys(chapter) = {} => medical_category = "General Pediatrics"
          /\ MatchingRules(content) = {} => age_group = "Pediatric"
    /\ \A k \in 1..Len(sections) :
          /\ sections[k].medical_category
                 \in ProcessorCategories \cup {"General Pediatrics"}
          /\ sections[k].age_group = "Pediatric"
          /\ Stem(filename) \notin ProcessorKeys
                 => sections[k].medical_category = "General Pediatrics"

\* C15 witness: the file "The_Nervous_System.txt", whose name with its
\* underscores is no key of the table, gives a section of the default
\* category
C15_Witness ==
    /\ Returned
    /\ Len(sections) >= 1
    /\ Contains(<<"_">>, filename)
    /\ Stem(filename) \notin ProcessorKeys
    /\ sections[1].medical_category = "General Pediatrics"
    /\ sections[1].age_group = "Pediatric"

----------------------------------------------------------------------------
(* validate_dataset.validate_dataset                                        *)

\* the longest CSV file validated, in data rows
MaxRows == 2

\* len(content.strip()) < 50
MinContent == 50

\* what open(csv_file) and the reader find: no such file, a file that cannot
\* be read (no permission, bytes that are not UTF-8), or a CSV file
CsvFileKinds == {"missing", "unreadable", "csv"}

\* required_fields, in the order of the list
RequiredFields == <<"title", "source", "chapter", "content_type", "id">>

\* a content cell by len(content) and len(content.strip()); the cell of a
\* file without a content column is the empty one
ContentCell(length, stripped) == [length |-> length, stripped |-> stripped]

ContentCells ==
    {ContentCell(0, 0),
     ContentCell(MinContent - 1, MinContent - 1),
     ContentCell(MinContent, MinContent),
     ContentCell(MinContent + 10, MinContent),
     ContentCell(MinContent + 10, MinContent - 1)}

\* a metadata cell: "absent" (the None that csv.DictReader gives a row
\* shorter than the header), "invalid" (not JSON), "scalar" (JSON
\* for a number or null) or "object" with its keys; chapter tells whether
\* the value of its 'chapter' key is a string or a list
MetadataCell(kind, fields, chapter_value) ==
    [kind |-> kind, fields |-> fields, chapter |-> chapter_value]

MetadataCells ==
    {MetadataCell("absent", {}, "text"),
     MetadataCell("invalid", {}, "text"),
     MetadataCell("scalar", {}, "text"),
     MetadataCell("object", Range(RequiredFields), "text"),
     MetadataCell("object", Range(RequiredFields) \ {"id"}, "text"),
     MetadataCell("object", {}, "text"),
     MetadataCell("object", Range(RequiredFields), "list")}

\* if not content or len(content.strip()) < 50:
ContentTooShort(cell) ==
    \/ cell.length = 0
    \/ cell.stripped < MinContent

\* json.loads(None) raises TypeError, and so does "field not in metadata"
\* for a number or None: neither is a json.JSONDecodeError, so the except
\* Exception of the function catches it
MetadataRaises(cell) == cell.kind \in {"absent", "scalar"}

\* the messages the metadata of row n adds to metadata_errors
MetadataMessages(cell, n) ==
    IF cell.kind = "invalid"
    THEN <<[row |-> n, what |-> "Invalid JSON"]>>
    ELSE LET missing == SelectSeq(RequiredFields, LAMBDA f : f \notin cell.fields)
         IN  [k \in DOMAIN missing |-> [row |-> n, what |-> missing[k]]]

\* if 'chapter' in metadata: chapters.append(metadata['chapter'])
ChapterOf(cell) ==
    IF cell.kind = "object" /\ "chapter" \in cell.fields
    THEN <<cell.chapter>>
    ELSE <<>>

\* open() or the reader raises: the function returns False
OpenFails ==
    /\ script = "validate_dataset"
    /\ csv_file \in {"missing", "unreadable"}
    /\ returned = <<>>
    /\ returned' = <<[result |-> FALSE]>>
    /\ UNCHANGED <<script, rows, batch_size, row_num, batch_data, successful,
                   failed, calls, validateVars, arrayVars, chunkVars, classVars,
                   sectVars>>

\* one round of the for loop (total_records is row_num); an exception that
\* is not a JSONDecodeError ends the function with False
ValidateRow ==
    /\ script = "validate_dataset"
    /\ csv_file = "csv"
    /\ returned = <<>>
    /\ row_num < Len(rows)
    /\ row_num' = row_num + 1
    /\ IF ContentTooShort(rows[row_num'].content)
       THEN /\ content_errors' = Append(content_errors, row_num')
            /\ UNCHANGED content_lengths
       ELSE /\ content_lengths' = Append(content_lengths, rows[row_num'].content.length)
            /\ UNCHANGED content_errors
    /\ IF MetadataRaises(rows[row_num'].metadata)
       THEN /\ returned' = <<[result |-> FALSE]>>
            /\ UNCHANGED <<metadata_errors, chapters>>
       ELSE /\ metadata_errors' = metadata_errors
                                    \o MetadataMessages(rows[row_num'].metadata, row_num')
            /\ chapters' = chapters \o ChapterOf(rows[row_num'].metadata)
            /\ UNCHANGED returned
    /\ UNCHANGED <<script, rows, batch_size, batch_data, successful, failed, calls,
                   csv_file, arrayVars, chunkVars, classVars, sectVars>>

\* what the lines after the loop end with: the average divides by
\* len(content_lengths), Counter(chapters) hashes every chapter, and the
\* result is total_errors == 0
Verdict(lengths, chapter_values, total_errors) ==
    IF lengths = <<>>
    THEN [raised |-> "ZeroDivisionError"]
    ELSE IF "list" \in Range(chapter_values)
         THEN [raised |-> "TypeError"]
         ELSE [result |-> total_errors = 0]

\* the statistics are printed and the function returns
ReportAndReturn ==
    /\ script = "validate_dataset"
    /\ csv_file = "csv"
    /\ returned = <<>>
    /\ row_num = Len(rows)
    /\ returned' = <<Verdict(content_lengths, chapters,
                             Len(content_errors) + Len(metadata_errors))>>
    /\ UNCHANGED <<script, rows, batch_size, row_num, batch_data, successful,
                   failed, calls, validateVars, arrayVars, chunkVars, classVars,
                   sectVars>>

\* the data rows of a CSV file
CsvRows == [content : ContentCells, metadata : MetadataCells]

ValidateFiles == UNION {[1..n -> CsvRows] : n \in 0..MaxRows}

ValidateInit ==
    /\ script = "validate_dataset"
    /\ csv_file \in CsvFileKinds
    /\ rows \in IF csv_file = "csv" THEN ValidateFiles ELSE {<<>>}
    /\ batch_size = 0
    /\ row_num = 0
    /\ batch_data = <<>>
    /\ successful = 0
    /\ failed = 0
    /\ calls = <<>>
    /\ returned = <<>>
    /\ content_lengths = <<>>
    /\ content_errors = <<>>
    /\ metadata_errors = <<>>
    /\ chapters = <<>>
    /\ ArrayIdle
    /\ ChunkIdle
    /\ ClassIdle
    /\ SectIdle

ValidateNext ==
    \/ OpenFails
    \/ ValidateRow
    \/ ReportAndReturn

ValidateSpec == ValidateInit /\ [][ValidateNext]_vars

----------------------------------------------------------------------------
(* The keywords column of nelson_textbook_dataset.csv:                      *)
(* create_new_schema_dataset.create_csv_files writes it and                 *)
(* parse_keywords_array (the same function in upload_new_schema.py and      *)
(* create_jsonl_dataset.py) reads it back                                   *)

\* keyword sets of up to MaxPermuted keywords are listed in every order
MaxPermuted == 3

\* sep.join(pieces)
RECURSIVE JoinWith(_, _)
JoinWith(pieces, sep) ==
    IF pieces = <<>> THEN <<>>
    ELSE IF Len(pieces) = 1 THEN pieces[1]
    ELSE pieces[1] \o sep \o JoinWith(Tail(pieces), sep)

\* f'"{k}"'
Quoted(k) == <<"\"">> \o k \o <<"\"">>

\* keywords_str = '{' + ','.join(f'"{k}"' for k in record['keywords']) + '}'
ArrayString(ks) ==
    <<"{">> \o JoinWith([k \in DOMAIN ks |-> Quoted(ks[k])], <<",">>) \o <<"}">>

\* s.strip(chars): the characters of chars removed from both ends
StripChars(s, chars) ==
    IF \A i \in DOMAIN s : s[i] \in chars
    THEN <<>>
    ELSE SubSeq(s,
                CHOOSE i \in DOMAIN s :
                    s[i] \notin chars /\ \A j \in 1..(i - 1) : s[j] \in chars,
                CHOOSE i \in DOMAIN s :
                    s[i] \notin chars /\ \A j \in (i + 1)..Len(s) : s[j] \in chars)

\* the place of the first sep in s
FirstOf(s, sep) == CHOOSE i \in DOMAIN s : s[i] = sep /\ \A j \in 1..(i - 1) : s[j] # sep

\* s.split(sep), sep one character: always at least one piece
RECURSIVE SplitAt(_, _)
SplitAt(s, sep) ==
    IF sep \notin Range(s)
    THEN <<s>>
    ELSE <<SubSeq(s, 1, FirstOf(s, sep) - 1)>>
             \o SplitAt(SubSeq(s, FirstOf(s, sep) + 1, Len(s)), sep)

\* a plausible slip: the quotes left on
Unquote_Bare(keyword) == Strip(keyword)

\* keyword.strip().strip('"').strip("'")
Unquote(keyword) == StripChars(StripChars(Strip(keyword), {"\""}), {"'"})

\* keywords_str.strip('{}').split(',')
Pieces(str) == SplitAt(StripChars(str, {"{", "}"}), ",")

\* the loop over the pieces: the unquoted pieces that are not empty
NonEmptyUnquoted(pieces) ==
    SelectSeq([k \in DOMAIN pieces |-> Unquote(pieces[k])],
              LAMBDA keyword : keyword # <<>>)

\* parse_keywords_array(keywords_str)
parse_keywords_array(str) ==
    IF str = <<>> \/ str = <<"{", "}">>
    THEN <<>>
    ELSE NonEmptyUnquoted(Pieces(str))

\* the scripts that read the column with parse_keywords_array
Readers == {"upload_new_schema", "create_jsonl_dataset"}

\* the elements of a list in the order of their first occurrence
RECURSIVE Distinct(_)
Distinct(list) ==
    IF list = <<>> THEN <<>>
    ELSE Distinct(SubSeq(list, 1, Len(list) - 1))
             \o (IF list[Len(list)] \in Range(SubSeq(list, 1, Len(list) - 1))
                 THEN <<>>
                 ELSE <<list[Len(list)]>>)

Reversed(list) == [k \in DOMAIN list |-> list[Len(list) + 1 - k]]

\* the lists with the elements of S, each once
Orderings(S) == {f \in [1..Cardinality(S) -> S] : Range(f) = S}

\* the kept keywords in the orders list(set(...)) is taken to give them: any
\* order for a small set, the order of first occurrence or its reverse for
\* a larger one
ListsOf(kept, listed) ==
    IF Cardinality(kept) <= MaxPermuted
    THEN Orderings(kept)
    ELSE {SelectSeq(Distinct(listed), LAMBDA k : k \in kept),
          Reversed(SelectSeq(Distinct(listed), LAMBDA k : k \in kept))}

\* record['keywords'] = extract_keywords(content), for the contents of the
\* classification runs
KeywordLists ==
    UNION {UNION {ListsOf(kept, KeywordList(co)) : kept \in extract_keywords(co)} :
              co \in Contents}

\* create_csv_files writes the keywords column of a record
WriteKeywords ==
    /\ script = "create_new_schema_dataset"
    /\ keywords_str = <<>>
    /\ keywords_str' = ArrayString(record_keywords)
    /\ UNCHANGED <<record_keywords, reader, parsed_keywords, uploadVars,
                   validateVars, chunkVars, classVars, sectVars>>

\* a reader parses the column: keywords = parse_keywords_array(row.get('keywords', '{}'))
ReadKeywords ==
    /\ script = "create_new_schema_dataset"
    /\ keywords_str # <<>>
    /\ reader = "none"
    /\ reader' \in Readers
    /\ parsed_keywords' = <<parse_keywords_array(keywords_str)>>
    /\ UNCHANGED <<record_keywords, keywords_str, uploadVars, validateVars,
                   chunkVars, classVars, sectVars>>

ArrayInit ==
    /\ script = "create_new_schema_dataset"
    /\ record_keywords \in KeywordLists
    /\ keywords_str = <<>>
    /\ reader = "none"
    /\ parsed_keywords = <<>>
    /\ rows = <<>>
    /\ batch_size = 0
    /\ row_num = 0
    /\ batch_data = <<>>
    /\ successful = 0
    /\ failed = 0
    /\ calls = <<>>
    /\ returned = <<>>
    /\ ValidateIdle
    /\ ChunkIdle
    /\ ClassIdle
    /\ SectIdle

ArrayNext ==
    \/ WriteKeywords
    \/ ReadKeywords

ArraySpec == ArrayInit /\ [][ArrayNext]_vars

----------------------------------------------------------------------------
(* Properties of the upload loops                                           *)

\* the upload function has returned
Uploaded == script \in UploadScripts /\ returned # <<>>

\* the insert calls that carried the record of row k
CallsWith(k) ==
    {c \in 1..Len(calls) : \E j \in 1..Len(calls[c].batch) : calls[c].batch[j] = k}

\* the rows of the file whose record is built without an exception
PreparedRows == {k \in 1..Len(rows) : Prepares(script, rows[k])}

\* every prepared row of the file was passed to the store
AllPassed == \A k \in PreparedRows : CallsWith(k) # {}

\* C21: simple_upload.upload_nelson_data skips and continues: whatever rows
\* fail to prepare and whatever insert calls raise or return no data, the
\* run goes on to the end of the file and returns, and by then every row
\* that could be prepared has been passed to the store in an insert call.
C21_ErrorsSkipAndContinue ==
    (script = "simple_upload" /\ returned = <<>>)
        ~> (Uploaded /\ row_num = Len(rows) /\ AllPassed)

\* C21 witness: a row failed to prepare, one insert call raised and a later
\* one returned no data, and after them a later row went to the store in a
\* later insert call
C21_Witness ==
    /\ script = "simple_upload"
    /\ Uploaded
    /\ AllPassed
    /\ \E c1, c2, c3 \in 1..Len(calls) :
          /\ c1 < c2 /\ c2 < c3
          /\ calls[c1].raised
          /\ ~calls[c2].raised /\ calls[c2].data = 0
          /\ \E k \in 1..Len(rows) :
                /\ ~Prepares(script, rows[k])
                /\ \E later \in (k + 1)..Len(rows) : CallsWith(later) = {c3}

\* the scripts whose insert call in the loop has no try of its own
UnguardedScripts ==
    {"upload_new_schema", "setup_and_upload", "direct_postgres_upload"}

\* C22: in upload_new_schema, setup_and_upload and direct_postgres_upload a
\* row is passed to the store in at most one insert call and an insert call
\* carries at most batch_size records, also when an insert call raises.
C22_EachRowOnceBatchesBounded ==
    script \in UnguardedScripts =>
        /\ \A k \in 1..Len(rows) : Cardinality(CallsWith(k)) <= 1
        /\ \A c \in 1..Len(calls) : Len(calls[c].batch) <= BatchSize(script)

\* the number of records the store acknowledged: the sum of len(result.data)
Acknowledged ==
    Sum([c \in 1..Len(calls) |-> IF calls[c].raised THEN 0 ELSE calls[c].data],
        1..Len(calls))

\* C23: the successful count upload_nelson_textbook_data returns is the
\* number of records the store acknowledged over all insert calls of the
\* run, whatever the insert calls answered.
C23_SuccessfulIsAcknowledged ==
    script = "upload_new_schema" /\ Uploaded
        => returned[1].successful = Acknowledged

\* the insert call returned every record, returned no data, or raised
AllOrNothing(c) ==
    calls[c].raised \/ calls[c].data \in {0, Len(calls[c].batch)}

\* C24: when simple_upload.upload_nelson_data returns, successful + failed
\* is the number of rows of the file, provided every insert call returned
\* all its records, returned no data or raised.
C24_EveryRowCountedOnce ==
    /\ script = "simple_upload"
    /\ Uploaded
    /\ \A c \in 1..Len(calls) : AllOrNothing(c)
    => returned[1].successful + returned[1].failed = Len(rows)

\* C24 witness: a file with a row that fails to prepare, a batch that
\* succeeded and a batch that raised: some rows are counted as successful
\* and more than one as failed
C24_Witness ==
    /\ script = "simple_upload"
    /\ Uploaded
    /\ PreparedRows # 1..Len(rows)
    /\ \A c \in 1..Len(calls) : AllOrNothing(c)
    /\ \E c \in 1..Len(calls) : calls[c].raised
    /\ \E c \in 1..Len(calls) : ~calls[c].raised /\ calls[c].data > 0
    /\ returned[1].successful > 0
    /\ returned[1].failed > 1
    /\ returned[1].successful + returned[1].failed = Len(rows)

----------------------------------------------------------------------------
(* Properties of the batch loops                                            *)

\* the batch function has returned (or raised, after its loop)
Batched == script \in BatchScripts /\ returned # <<>>

\* the records of round c of the loop: records[(c-1)*batch_size : c*batch_size]
RoundRecords(c) == BatchAt(Len(rows), (c - 1) * batch_size, batch_size)

\* the number of rounds of the loop: len(range(0, len(records), batch_size))
Rounds == (Len(rows) + batch_size - 1) \div batch_size

\* C25 as stated: the insert call of round k carries
\* records[k*batch_size : (k+1)*batch_size], every record is passed to
\* exactly one insert call, no insert call carries more than batch_size
\* records, and the rounds after an insert that raised are still made.
C25_BatchesPartitionRecords ==
    script \in BatchScripts =>
        /\ \A c \in 1..Len(calls) :
              /\ calls[c].batch = RoundRecords(c)
              /\ Len(calls[c].batch) <= batch_size
        /\ Batched =>
              /\ Len(calls) = Rounds
              /\ \A k \in 1..Len(rows) : Cardinality(CallsWith(k)) = 1

\* C25 amended: the insert call of round k carries, in order, the records
\* of records[k*batch_size : (k+1)*batch_size] whose preparation did not
\* raise; such a record is passed to exactly one insert call and a record
\* whose preparation raised to none; no insert call carries more than
\* batch_size records; every round is made, whatever the earlier inserts
\* answered.
C25_PreparedRecordsPartitioned ==
    script \in BatchScripts =>
        /\ \A c \in 1..Len(calls) :
              /\ calls[c].batch
                     = SelectSeq(RoundRecords(c), LAMBDA k : RecordPrepares(rows[k]))
              /\ Len(calls[c].batch) <= batch_size
        /\ Batched =>
              /\ Len(calls) = Rounds
              /\ \A k \in 1..Len(rows) :
                    Cardinality(CallsWith(k)) = IF RecordPrepares(rows[k]) THEN 1 ELSE 0

\* C25 witness: three rounds of upload_to_supabase.upload_to_supabase; a
\* record of the first could not be prepared, the insert of the first
\* raised, and the two later rounds were made with the records after it
C25_Witness ==
    /\ script = "upload_to_supabase"
    /\ Batched
    /\ Len(calls) = 3
    /\ batch_size > 1
    /\ calls[1].raised
    /\ Len(calls[1].batch) < batch_size
    /\ Len(calls[2].batch) = batch_size
    /\ \E k \in 1..Len(rows) : ~RecordPrepares(rows[k])

\* C26: in NelsonDataProcessor.upload_to_supabase every section of an
\* inserted batch carries an embedding that is a list of numbers, and the
\* one of a section for which the embedding service failed is the vector
\* of 1536 zeros.
C26_EverySectionEmbedded ==
    script = "data_processor" =>
        \A c \in 1..Len(calls) :
            /\ Len(calls[c].embeddings) = Len(calls[c].batch)
            /\ \A j \in 1..Len(calls[c].batch) :
                  /\ calls[c].embeddings[j] \in Seq(Int)
                  /\ calls[c].service[j] = "raises" =>
                        calls[c].embeddings[j] = [i \in 1..1536 |-> 0]

\* C26 witness: a batch of ten sections was inserted; the service failed
\* for its first section and answered for its second
C26_Witness ==
    /\ script = "data_processor"
    /\ Len(calls) >= 1
    /\ Len(calls[1].batch) = 10
    /\ calls[1].service[1] = "raises"
    /\ calls[1].service[2] = "answers"
    /\ calls[1].embeddings[1] # calls[1].embeddings[2]

----------------------------------------------------------------------------
(* Properties of validate_dataset                                           *)

\* validate_dataset has ended
Validated == script = "validate_dataset" /\ returned # <<>>

\* a content error as the claim describes it: the content of the row is
\* empty or shorter than 50 stripped characters
HasContentError(row) == row.content.stripped < 50

\* a metadata error as the claim describes it: the metadata of the row is
\* not valid JSON or lacks a required field
HasMetadataError(row) ==
    \/ row.metadata.kind \in {"absent", "invalid"}
    \/ \E f \in {"title", "source", "chapter", "content_type", "id"} :
          f \notin row.metadata.fields

\* C27: validate_dataset ends with a boolean result for every input: False
\* when the file is missing or unreadable, otherwise True exactly when no
\* row has a content error or a metadata error, also for a CSV without data
\* rows or one in which the content of every row is too short.
C27_EndsWithBoolean ==
    Validated =>
        /\ DOMAIN returned[1] = {"result"}
        /\ returned[1].result \in BOOLEAN
        /\ returned[1].result =
              /\ csv_file = "csv"
              /\ \A k \in 1..Len(rows) :
                    ~HasContentError(rows[k]) /\ ~HasMetadataError(rows[k])

----------------------------------------------------------------------------
(* Properties of the keywords column                                        *)

\* a keyword as the claim describes the ones extract_keywords produces: not
\* empty, without comma, quote or brace, without whitespace at either end
PlainKeyword(k) ==
    /\ k # <<>>
    /\ \A i \in DOMAIN k : k[i] \notin {",", "\"", "'", "{", "}"}
    /\ k[1] # " "
    /\ k[Len(k)] # " "

\* C28: the keyword lists extract_keywords produces hold plain keywords,
\* and parse_keywords_array applied to the array string create_csv_files
\* writes for such a list returns the same list in the same order; the
\* array string of the empty list is '{}' and is parsed to the empty list.
C28_KeywordsRoundTrip ==
    script = "create_new_schema_dataset" =>
        /\ \A k \in DOMAIN record_keywords : PlainKeyword(record_keywords[k])
        /\ (keywords_str # <<>> /\ record_keywords = <<>>) => keywords_str = <<"{", "}">>
        /\ parsed_keywords # <<>> => parsed_keywords[1] = record_keywords

\* C28 witness: a list of ten keywords, one of them "10 mg", written as
\* one string with nine commas and read back by create_jsonl_dataset
C28_Witness ==
    /\ reader = "create_jsonl_dataset"
    /\ Len(record_keywords) = 10
    /\ \E k \in DOMAIN record_keywords : record_keywords[k] = <<"1", "0", " ", "m", "g">>
    /\ Len(SelectSeq(keywords_str, LAMBDA c : c = ",")) = 9
    /\ parsed_keywords = <<record_keywords>>

----------------------------------------------------------------------------
(* Properties of the category table                                         *)

\* the chapter label "learning & developmental disorder"
LearningLabel ==
    <<"l", "e", "a", "r", "n", "i", "n", "g", " ", "&", " ", "d", "e",
      "v", "e", "l", "o", "p", "m", "e", "n", "t", "a", "l", " ", "d",
      "i", "s", "o", "r", "d", "e", "r">>

\* the pair of the category table that decides the category of a label: the
\* first one whose substring occurs in it (0 when there is none)
DecidingPair(label) ==
    IF MatchingKeys(label) = {} THEN 0
    ELSE CHOOSE i \in MatchingKeys(label) : \A j \in MatchingKeys(label) : i <= j

\* C29: the label "learning & developmental disorder" is categorized
\* "Developmental Pediatrics" by the pair of 'learning', and every pair of
\* the category table is the deciding pair of some chapter label.
C29_EveryPairDecides ==
    /\ (Classified /\ chapter = LearningLabel) =>
          /\ medical_category = "Developmental Pediatrics"
          /\ CategoryMapping[DecidingPair(chapter)].key
                 = <<"l", "e", "a", "r", "n", "i", "n", "g">>
    /\ Classified =>
          \A i \in DOMAIN CategoryMapping :
              \E label \in Labels : DecidingPair(label) = i

----------------------------------------------------------------------------
(* Properties of the keywords and their text                                *)

\* k is a lowercase string that occurs in the lowercased text t
LowerAndOccurs(k, t) == Lower(k) = k /\ Contains(k, Lower(t))

\* C30: every keyword either extract_keywords returns is a lowercase string
\* that occurs as a contiguous substring of the lowercased input text.
C30_KeywordsOccurInText ==
    /\ \A k \in keywords : LowerAndOccurs(k, content)
    /\ rerun # <<>> => \A k \in rerun[1].keywords : LowerAndOccurs(k, content)
    /\ \A n \in 1..Len(sections) :
          \A k \in sections[n].keywords : LowerAndOccurs(k, sections[n].content)

\* C30 witness: a classified row with several keywords, one of which is in
\* the content only in another case and one of which is a term in the
\* middle of a longer word
C30_Witness ==
    /\ Classified
    /\ Cardinality(keywords) >= 2
    /\ \E k \in keywords : ~Contains(k, content)
    /\ \E k \in keywords : ~Contains(<<" ">> \o k \o <<" ">>, <<" ">> \o Lower(content) \o <<" ">>)

====
